---- MODULE Spec2Model ----
(***************************************************************************)
(* A model of the Opus Memory system (src/src/opus_memory): the consent    *)
(* layer (consent.py), the storage backend (storage.py) and the            *)
(* MemorySystem facade (system.py).                                         *)
(*                                                                          *)
(* Text is a sequence of one-character strings, so that case folding,      *)
(* substring tests, trimming and replacement are computed as Python         *)
(* computes them.  Real numbers (salience, similarity, thresholds) are      *)
(* integers in thousandths; every input is a multiple of 0.01, which keeps  *)
(* the products of the code exact.                                          *)
(***************************************************************************)
EXTENDS Integers, Sequences, FiniteSets, TLC

VARIABLES
    collections,   \* MemoryStore.collections: kind -> (id -> stored record)
    deletions,     \* ConsentLayer._user_deletions
    nextId,        \* number of ids handed out by uuid4 so far
    now,           \* datetime.utcnow(), in days
    config,        \* ConsentLayer.config of the running MemorySystem
    call,          \* the operation most recently invoked, with its arguments
    ret,           \* what that operation returned
    before         \* the stored records and deletion set when it was invoked

vars == <<collections, deletions, nextId, now, config, call, ret, before>>

\* ------------------------------------------------------------------------
\* Python values
\* ------------------------------------------------------------------------

\* Optional[T]: None is the empty sequence, a value x is <<x>>.
None == <<>>

Some(x) == <<x>>

\* a or b, for an Optional a (None is falsy; so is an empty string)
OrElse(a, b) == IF a = None \/ a[1] = <<>> THEN b ELSE a[1]

Min(S) == CHOOSE x \in S : \A y \in S : x <= y

Max(S) == CHOOSE x \in S : \A y \in S : x >= y

Abs(x) == IF x < 0 THEN -x ELSE x

\* One is the real number 1.0 in thousandths.
One == 1000

UpperChars == <<"A","B","C","D","E","F","G","H","I","J","K","L","M",
                "N","O","P","Q","R","S","T","U","V","W","X","Y","Z">>

LowerChars == <<"a","b","c","d","e","f","g","h","i","j","k","l","m",
                "n","o","p","q","r","s","t","u","v","w","x","y","z">>

Whitespace == {" "}

\* the lower-case letter of every upper-case letter
ToLower ==
    [c \in {UpperChars[i] : i \in 1..26} |->
        LowerChars[CHOOSE i \in 1..26 : UpperChars[i] = c]]

LowerChar(c) == IF c \in DOMAIN ToLower THEN ToLower[c] ELSE c

\* str.lower()
lower(s) == [i \in 1..Len(s) |-> LowerChar(s[i])]

\* needle in hay
contains(hay, needle) ==
    \E i \in 0..(Len(hay) - Len(needle)) : SubSeq(hay, i + 1, i + Len(needle)) = needle

\* str.strip()
strip(s) ==
    LET keep == {i \in 1..Len(s) : s[i] \notin Whitespace}
    IN  IF keep = {} THEN <<>> ELSE SubSeq(s, Min(keep), Max(keep))

RECURSIVE interleave(_, _)
\* the tail of s.replace("", new): every character followed by new
interleave(s, new) ==
    IF s = <<>> THEN <<>> ELSE <<s[1]>> \o new \o interleave(Tail(s), new)

RECURSIVE replaceFrom(_, _, _)
replaceFrom(s, old, new) ==
    IF Len(s) < Len(old) THEN s
    ELSE IF SubSeq(s, 1, Len(old)) = old
         THEN new \o replaceFrom(SubSeq(s, Len(old) + 1, Len(s)), old, new)
         ELSE <<s[1]>> \o replaceFrom(Tail(s), old, new)

\* str.replace(old, new): leftmost non-overlapping occurrences, case-sensitive
replace(s, old, new) ==
    IF old = <<>> THEN new \o interleave(s, new) ELSE replaceFrom(s, old, new)

REDACTED == <<"[","R","E","D","A","C","T","E","D","]">>

\* ------------------------------------------------------------------------
\* Sequences as Python lists
\* ------------------------------------------------------------------------

\* s[:n]
Prefix(s, n) == SubSeq(s, 1, IF n < Len(s) THEN (IF n < 0 THEN 0 ELSE n) ELSE Len(s))

Range(s) == {s[i] : i \in DOMAIN s}

RemoveAt(s, i) == SubSeq(s, 1, i - 1) \o SubSeq(s, i + 1, Len(s))

RECURSIVE sorted_desc(_)
\* sorted(..., reverse=True) of a list of <<key, item>> pairs: the items by
\* descending key, items of equal key in their original order
sorted_desc(pairs) ==
    IF pairs = <<>> THEN <<>>
    ELSE LET top == Max({pairs[i][1] : i \in DOMAIN pairs})
             first == Min({i \in DOMAIN pairs : pairs[i][1] = top})
         IN  <<pairs[first][2]>> \o sorted_desc(RemoveAt(pairs, first))

RECURSIVE SetToSeq(_)
\* the elements of a set of integers in ascending order
SetToSeq(S) == IF S = {} THEN <<>> ELSE <<Min(S)>> \o SetToSeq(S \ {Min(S)})

RECURSIVE split_on(_, _)
\* the pieces of s between the characters of seps (empty pieces included)
split_on(s, seps) ==
    LET cut == {i \in 1..Len(s) : s[i] \in seps}
    IN  IF cut = {} THEN <<s>>
        ELSE <<SubSeq(s, 1, Min(cut) - 1)>>
             \o split_on(SubSeq(s, Min(cut) + 1, Len(s)), seps)

\* str.split(): the words of s
split(s) == SelectSeq(split_on(s, Whitespace), LAMBDA w : w # <<>>)

RECURSIVE join(_, _)
\* sep.join(parts)
join(sep, parts) ==
    IF parts = <<>> THEN <<>>
    ELSE IF Len(parts) = 1 THEN parts[1]
    ELSE parts[1] \o sep \o join(sep, Tail(parts))

\* ------------------------------------------------------------------------
\* models.py: Memory and its storage form
\* ------------------------------------------------------------------------

\* a memory object; emotional_valence exists on episodic memories only
Memory(id, memory_type, content, salience, decay_rate, created_at, updated_at, tags, emotional_valence) ==
    [id |-> id, content |-> content, memory_type |-> memory_type,
     created_at |-> created_at, updated_at |-> updated_at,
     salience |-> salience, decay_rate |-> decay_rate, tags |-> tags,
     emotional_valence |-> IF memory_type = "episodic"
                           THEN Some(emotional_valence) ELSE None]

\* Memory.to_storage_dict: the metadata written next to the document
to_storage_dict(m) ==
    [id |-> m.id, content |-> m.content, memory_type |-> m.memory_type,
     created_at |-> m.created_at, updated_at |-> m.updated_at,
     salience |-> m.salience, decay_rate |-> m.decay_rate,
     tags |-> join(<<",">>, m.tags),
     emotional_valence |-> m.emotional_valence]

\* Memory.from_storage_dict(data, content)
from_storage_dict(data, content) ==
    [id |-> data.id, content |-> content, memory_type |-> data.memory_type,
     created_at |-> data.created_at, updated_at |-> data.updated_at,
     salience |-> data.salience, decay_rate |-> data.decay_rate,
     tags |-> IF data.tags # <<>> THEN split_on(data.tags, {","}) ELSE <<>>,
     emotional_valence |-> IF data.memory_type = "episodic"
                           THEN (IF data.emotional_valence = None
                                 THEN Some(0) ELSE data.emotional_valence)
                           ELSE None]

\* the Field(ge=..., le=...) constraints a constructor checks: salience and
\* decay_rate in [0,1], emotional_valence in [-1,1]
validates(m) ==
    /\ m.salience \in 0..One
    /\ m.decay_rate \in 0..One
    /\ m.emotional_valence # None => m.emotional_valence[1] \in (-One)..One

\* ------------------------------------------------------------------------
\* embeddings.py: EmbeddingEngine (the sentence-transformer is a black box:
\* a fixed function of the text, here its topic, and a symmetric similarity
\* of topics that is 1.0 for equal topics)
\* ------------------------------------------------------------------------

NumTopics == 4

\* EmbeddingEngine.embed
embed(text) ==
    IF text = <<>> \/ ~(\E i \in 1..26 : LowerChars[i] = LowerChar(text[1])) THEN 0
    ELSE (CHOOSE i \in 1..26 : LowerChars[i] = LowerChar(text[1])) % NumTopics

\* cosine similarity by distance of topics
TopicSimilarity == <<1000, 900, 550, 300>>

\* EmbeddingEngine.similarity
similarity(embedding1, embedding2) == TopicSimilarity[Abs(embedding1 - embedding2) + 1]

Digits == <<"0", "1", "2", "3", "4", "5", "6", "7", "8", "9">>

\* the text of an id (str(uuid4()), or whatever an import names): nine
\* characters, of which two ids may share the first eight
IdText(id) ==
    [j \in 1..9 |-> IF j = 1 THEN Digits[(id \div 2) + 1]
                    ELSE IF j = 9 THEN Digits[(id % 2) + 1] ELSE "0"]

\* ------------------------------------------------------------------------
\* models.py, consent.py: enumerations and configuration
\* ------------------------------------------------------------------------

\* MemoryType, in declaration order (the iteration order of the collections)
MemoryType == <<"episodic", "semantic", "procedural", "identity">>

Kinds == {MemoryType[i] : i \in 1..Len(MemoryType)}

StorageReason == {"significant_moment", "learned_something", "user_request",
                  "behavioral_insight", "identity_affirmation", "correction",
                  "relationship"}

RetrievalReason == {"explicit_request", "context_triggered", "identity_check",
                    "skill_application"}

\* ConsentConfig() with its defaults
DefaultConfig ==
    [require_explicit_consent |-> FALSE,
     auto_approve |-> [k \in Kinds |-> TRUE],
     min_content_length |-> 10,
     min_salience_for_auto |-> 300,
     require_relevance_threshold |-> 500,
     max_results_per_query |-> 10,
     redact_patterns |-> <<>>,
     never_store_patterns |-> <<>>]

\* ------------------------------------------------------------------------
\* consent.py: ConsentLayer.check_storage_consent
\* ------------------------------------------------------------------------

ConsentCheck(proceed, reason, matched, modified) ==
    [should_proceed |-> proceed, reason |-> reason, matched |-> matched,
     modified_content |-> modified]

\* a case-sensitive variant of the never-store test
never_store_hits_case_sensitive(cfg, content) ==
    {i \in 1..Len(cfg.never_store_patterns) :
        contains(content, cfg.never_store_patterns[i])}

\* the never-store patterns found in the content, by position in the list
never_store_hits(cfg, content) ==
    {i \in 1..Len(cfg.never_store_patterns) :
        contains(lower(content), lower(cfg.never_store_patterns[i]))}

RECURSIVE redact(_, _)
\* the redaction loop over config.redact_patterns
redact(content, patterns) ==
    IF patterns = <<>> THEN content
    ELSE LET pattern == Head(patterns)
             modified == IF contains(lower(content), lower(pattern))
                         THEN replace(content, pattern, REDACTED)
                         ELSE content
         IN  redact(modified, Tail(patterns))

\* a variant of the length check that does not trim
content_too_short_untrimmed(cfg, content) == Len(content) < cfg.min_content_length

\* the length check
content_too_short(cfg, content) == Len(strip(content)) < cfg.min_content_length

\* a variant in which a call that does not pass user_consented withholds it
user_consented_withheld == FALSE

\* user_consented: bool = True, the value of a call that does not pass it
user_consented_default == TRUE

check_storage_consent(cfg, content, memory_type, reason, salience, user_consented) ==
    LET hits == never_store_hits(cfg, content)
        modified_content == redact(content, cfg.redact_patterns)
    IN  IF hits # {}
        THEN ConsentCheck(FALSE, "never_store",
                          Some(cfg.never_store_patterns[Min(hits)]), None)
        ELSE IF content_too_short(cfg, content)
        THEN ConsentCheck(FALSE, "too_short", None, None)
        ELSE IF cfg.require_explicit_consent /\ ~user_consented
        THEN ConsentCheck(FALSE, "consent_required", None, None)
        ELSE IF ~cfg.auto_approve[memory_type]
        THEN ConsentCheck(FALSE, "auto_approval_disabled", None, None)
        ELSE IF salience < cfg.min_salience_for_auto
        THEN ConsentCheck(FALSE, "salience_below_threshold", None, None)
        ELSE ConsentCheck(TRUE, reason, None,
                          IF modified_content # content
                          THEN Some(modified_content) ELSE None)

\* ------------------------------------------------------------------------
\* storage.py: MemoryStore over the four collections
\* ------------------------------------------------------------------------

\* collection.upsert(ids=[id], documents=[...], metadatas=[...])
upsert(collection, id, entry) ==
    [i \in (DOMAIN collection) \cup {id} |-> IF i = id THEN entry ELSE collection[i]]

\* collection.delete(ids=[id]); an absent id is not an error
remove(collection, id) == [i \in (DOMAIN collection) \ {id} |-> collection[i]]

\* MemoryStore.store: the collections afterwards (the call returns memory.id)
store(colls, memory) ==
    [colls EXCEPT ![memory.memory_type] =
        upsert(@, memory.id, [document |-> memory.content,
                              metadata |-> to_storage_dict(memory)])]

\* the memory object read back from a collection
loaded(colls, kind, id) ==
    from_storage_dict(colls[kind][id].metadata, colls[kind][id].document)

\* whether Memory.from_storage_dict builds the record instead of raising
readable(entry) == validates(from_storage_dict(entry.metadata, entry.document))

\* MemoryStore.retrieve_by_id: the first collection, in declaration order,
\* that holds the id and whose record can be built (a collection whose
\* record raises is skipped by the except clause)
retrieve_by_id(colls, memory_id) ==
    LET holding == {i \in 1..Len(MemoryType) :
                       /\ memory_id \in DOMAIN colls[MemoryType[i]]
                       /\ readable(colls[MemoryType[i]][memory_id])}
    IN  IF holding = {} THEN None
        ELSE Some(loaded(colls, MemoryType[Min(holding)], memory_id))

\* MemoryStore.count
count(colls, memory_type) ==
    IF memory_type # None THEN Cardinality(DOMAIN colls[memory_type[1]])
    ELSE Cardinality(DOMAIN colls["episodic"]) + Cardinality(DOMAIN colls["semantic"])
         + Cardinality(DOMAIN colls["procedural"]) + Cardinality(DOMAIN colls["identity"])

\* a variant of delete that reports whether the id was held
delete_reporting_presence(colls, memory_id) ==
    [collections |-> [colls EXCEPT ![MemoryType[1]] = remove(@, memory_id)],
     result |-> memory_id \in DOMAIN colls[MemoryType[1]]]

\* MemoryStore.delete: the loop returns inside its first iteration, because
\* collection.delete does not raise for an id the collection does not hold
\* (tests/test_integration.py:227-229)
delete(colls, memory_id) ==
    [collections |-> [colls EXCEPT ![MemoryType[1]] = remove(@, memory_id)],
     result |-> TRUE]

\* the decay test of search: decay_rate * age_days / 365 > 0.8
heavily_decayed(metadata, today) ==
    /\ metadata.decay_rate > 0
    /\ metadata.decay_rate * (today - metadata.created_at) > 800 * 365

\* collection.query(query_embeddings=[e], n_results=k, where=salience >= min):
\* the ids of the k nearest documents, nearest first (equal distances by id)
query_collection(collection, embedding, k, min_salience) ==
    LET ids == SetToSeq({i \in DOMAIN collection :
                            min_salience > 0 => collection[i].metadata.salience >= min_salience})
        ranked == sorted_desc([j \in DOMAIN ids |->
                     <<similarity(embedding, embed(collection[ids[j]].document)), ids[j]>>])
    IN  Prefix(ranked, k)

\* the ranking key of search: similarity * (0.5 + 0.5 * salience), doubled
weighted(pair) == pair[2] * (One + pair[1].salience)

\* the ids of the loop over one kind's results before from_storage_dict
\* raises
up_to_unreadable(collection, fresh) ==
    LET broken == {j \in DOMAIN fresh : ~readable(collection[fresh[j]])}
    IN  IF broken = {} THEN fresh ELSE SubSeq(fresh, 1, Min(broken) - 1)

\* all_results.append((memory, similarity)) for the ids kept
appended(collection, embedding, kept) ==
    [j \in DOMAIN kept |->
        <<from_storage_dict(collection[kept[j]].metadata, collection[kept[j]].document),
          similarity(embedding, embed(collection[kept[j]].document))>>]

\* what one pass of the loop appends for a kind whose query succeeded: the
\* records neither excluded nor heavily decayed, up to the first that
\* from_storage_dict raises on (the except clause then moves on to the next
\* kind)
kind_results(colls, today, embedding, kind, k, min_salience, include_decayed, exclude_ids) ==
    appended(colls[kind], embedding,
             up_to_unreadable(colls[kind],
                 SelectSeq(query_collection(colls[kind], embedding, k, min_salience),
                           LAMBDA i :
                              /\ i \notin exclude_ids
                              /\ include_decayed
                                    \/ ~heavily_decayed(colls[kind][i].metadata, today))))

RECURSIVE search_loop_aborting(_, _, _, _, _, _, _, _, _)
\* a variant of the loop without the try/except: the first failing query
\* ends the loop
search_loop_aborting(colls, today, embedding, types, k, min_salience, include_decayed, exclude_ids, failing) ==
    IF types = <<>> \/ Head(types) \in failing THEN <<>>
    ELSE kind_results(colls, today, embedding, Head(types), k, min_salience,
                      include_decayed, exclude_ids)
         \o search_loop_aborting(colls, today, embedding, Tail(types), k, min_salience,
                                 include_decayed, exclude_ids, failing)

RECURSIVE search_loop(_, _, _, _, _, _, _, _, _)
\* the loop of search and search_by_embedding over types_to_search: the
\* (memory, similarity) pairs; collection.query raises for the kinds in
\* failing, and the except clause moves on to the next kind
search_loop(colls, today, embedding, types, k, min_salience, include_decayed, exclude_ids, failing) ==
    IF types = <<>> THEN <<>>
    ELSE (IF Head(types) \in failing THEN <<>>
          ELSE kind_results(colls, today, embedding, Head(types), k, min_salience,
                            include_decayed, exclude_ids))
         \o search_loop(colls, today, embedding, Tail(types), k, min_salience,
                        include_decayed, exclude_ids, failing)

\* the loop when every query succeeds
search_types(colls, today, embedding, types, k, min_salience, include_decayed) ==
    search_loop(colls, today, embedding, types, k, min_salience, include_decayed, {}, {})

\* all_results.sort(key=similarity * (0.5 + 0.5 * salience), reverse=True)[:n]
ranked_top(all_results, n_results) ==
    Prefix(sorted_desc([j \in DOMAIN all_results |->
                           <<weighted(all_results[j]), all_results[j]>>]),
           n_results)

\* MemoryStore.search when the queries of the kinds in failing raise
search_failing(colls, today, query, memory_types, n_results, min_salience, include_decayed, failing) ==
    ranked_top(search_loop(colls, today, embed(query), OrElse(memory_types, MemoryType),
                           n_results, min_salience, include_decayed, {}, failing),
               n_results)

\* MemoryStore.search_by_embedding when the queries of the kinds in failing raise
search_by_embedding_failing(colls, today, embedding, memory_types, n_results, min_salience, include_decayed, exclude_ids, failing) ==
    ranked_top(search_loop(colls, today, embedding, OrElse(memory_types, MemoryType),
                           n_results * 2, min_salience, include_decayed, exclude_ids,
                           failing),
               n_results)

\* MemoryStore.search_by_embedding
search_by_embedding(colls, today, embedding, memory_types, n_results, min_salience, include_decayed, exclude_ids) ==
    search_by_embedding_failing(colls, today, embedding, memory_types, n_results,
                                min_salience, include_decayed, exclude_ids, {})

\* MemoryStore.search
search(colls, today, query, memory_types, n_results, min_salience, include_decayed) ==
    LET all_results == search_types(colls, today, embed(query),
                                    OrElse(memory_types, MemoryType), n_results,
                                    min_salience, include_decayed)
    IN  Prefix(sorted_desc([j \in DOMAIN all_results |->
                               <<weighted(all_results[j]), all_results[j]>>]),
               n_results)

\* ------------------------------------------------------------------------
\* storage.py: MemoryStore._cluster_memories and _extract_patterns
\* ------------------------------------------------------------------------

RECURSIVE fold_in_keeping_unclustered(_, _, _, _, _)
\* a variant of the inner loop that forgets to mark the folded records
fold_in_keeping_unclustered(sorted_memories, j, cluster_embedding, threshold, acc) ==
    IF j > Len(sorted_memories) THEN acc
    ELSE LET other == sorted_memories[j]
         IN  IF other[1].id \notin acc.clustered_ids
                /\ similarity(cluster_embedding, embed(other[1].content)) >= threshold
             THEN fold_in_keeping_unclustered(sorted_memories, j + 1, cluster_embedding,
                      threshold, [acc EXCEPT !.cluster = Append(@, other)])
             ELSE fold_in_keeping_unclustered(sorted_memories, j + 1, cluster_embedding,
                      threshold, acc)

RECURSIVE fold_in(_, _, _, _, _)
\* the inner loop of _cluster_memories from position j on: the cluster grown
\* by every unclustered record similar enough to the seed
fold_in(sorted_memories, j, cluster_embedding, threshold, acc) ==
    IF j > Len(sorted_memories) THEN acc
    ELSE LET other == sorted_memories[j]
         IN  IF other[1].id \in acc.clustered_ids
             THEN fold_in(sorted_memories, j + 1, cluster_embedding, threshold, acc)
             ELSE IF similarity(cluster_embedding, embed(other[1].content)) >= threshold
             THEN fold_in(sorted_memories, j + 1, cluster_embedding, threshold,
                          [cluster |-> Append(acc.cluster, other),
                           clustered_ids |-> acc.clustered_ids \cup {other[1].id}])
             ELSE fold_in(sorted_memories, j + 1, cluster_embedding, threshold, acc)

RECURSIVE cluster_from(_, _, _, _, _)
\* the outer loop of _cluster_memories from position i on
cluster_from(sorted_memories, i, threshold, clustered_ids, clusters) ==
    IF i > Len(sorted_memories) THEN clusters
    ELSE LET seed == sorted_memories[i]
             grown == fold_in(sorted_memories, 1, embed(seed[1].content), threshold,
                              [cluster |-> <<seed>>,
                               clustered_ids |-> clustered_ids \cup {seed[1].id}])
         IN  IF seed[1].id \in clustered_ids
             THEN cluster_from(sorted_memories, i + 1, threshold, clustered_ids, clusters)
             ELSE cluster_from(sorted_memories, i + 1, threshold, grown.clustered_ids,
                               IF grown.cluster # <<>>
                               THEN Append(clusters, grown.cluster) ELSE clusters)

\* a variant that opens the clusters in the order of the pool
cluster_memories_in_pool_order(memories, threshold) ==
    IF memories = <<>> THEN <<>> ELSE cluster_from(memories, 1, threshold, {}, <<>>)

\* MemoryStore._cluster_memories
cluster_memories(memories, threshold) ==
    IF memories = <<>> THEN <<>>
    ELSE cluster_from(sorted_desc([i \in DOMAIN memories |-> <<memories[i][2], memories[i]>>]),
                      1, threshold, {}, <<>>)

RECURSIVE distinct(_)
\* the distinct elements of a list in order of first occurrence (the key
\* order of a dict filled from the list)
distinct(l) ==
    IF l = <<>> THEN <<>>
    ELSE <<Head(l)>> \o distinct(SelectSeq(Tail(l), LAMBDA x : x # Head(l)))

occurrences(l, x) == Cardinality({i \in DOMAIN l : l[i] = x})

RECURSIVE sum_valence(_)
sum_valence(ms) ==
    IF ms = <<>> THEN 0 ELSE Head(ms).emotional_valence[1] + sum_valence(Tail(ms))

RECURSIVE concat_tags(_)
\* all_tags: the tag lists of the memories, one after the other
concat_tags(ms) == IF ms = <<>> THEN <<>> ELSE Head(ms).tags \o concat_tags(Tail(ms))

Pattern(note, n, kind, tags) == [note |-> note, n |-> n, kind |-> kind, tags |-> tags]

\* the notes _extract_patterns emits for one cluster
cluster_patterns(cluster) ==
    LET memories == [i \in DOMAIN cluster |-> cluster[i][1]]
        types == [i \in DOMAIN memories |-> memories[i].memory_type]
        seen_types == distinct(types)
        most == Max({occurrences(types, t) : t \in Range(seen_types)})
        dominant_type ==
            seen_types[Min({i \in DOMAIN seen_types : occurrences(types, seen_types[i]) = most})]
        high_salience == SelectSeq(memories, LAMBDA m : m.salience > 700)
        emotional_memories ==
            SelectSeq(memories, LAMBDA m : /\ m.emotional_valence # None
                                           /\ Abs(m.emotional_valence[1]) > 500)
        all_tags == concat_tags(memories)
        recurring_tags == SelectSeq(distinct(all_tags),
                                    LAMBDA t : occurrences(all_tags, t) >= 2)
    IN  IF Len(cluster) < 2 THEN <<>>
        ELSE (IF 10 * most >= 6 * Len(memories)
              THEN <<Pattern("Cluster of memories", Len(memories), dominant_type, <<>>)>>
              ELSE <<>>)
          \o (IF Len(high_salience) >= 2
              THEN <<Pattern("High-importance pattern", Len(high_salience), "", <<>>)>>
              ELSE <<>>)
          \o (IF Len(emotional_memories) >= 2
              THEN <<Pattern("Emotional pattern", Len(emotional_memories),
                             IF sum_valence(emotional_memories) > 0
                             THEN "positive" ELSE "negative", <<>>)>>
              ELSE <<>>)
          \o (IF recurring_tags # <<>>
              THEN <<Pattern("Recurring entities", 0, "", Prefix(recurring_tags, 3))>>
              ELSE <<>>)

RECURSIVE extract_patterns(_)
\* MemoryStore._extract_patterns
extract_patterns(clusters) ==
    IF clusters = <<>> THEN <<>>
    ELSE cluster_patterns(Head(clusters)) \o extract_patterns(Tail(clusters))

\* ------------------------------------------------------------------------
\* storage.py: MemoryStore.search_associative
\* ------------------------------------------------------------------------

\* f"related_to:{memory.id[:8]}"
related_to(memory) ==
    <<"r","e","l","a","t","e","d","_","t","o",":">> \o Prefix(IdText(memory.id), 8)

RECURSIVE add_related_of_any_similarity(_, _, _, _, _)
\* a variant of the inner loop that does not test the similarity
add_related_of_any_similarity(related, memory, similarity_threshold, seen_ids, associated_memories) ==
    IF related = <<>> THEN [seen_ids |-> seen_ids, associated_memories |-> associated_memories]
    ELSE LET related_mem == Head(related)[1]
             rel_similarity == Head(related)[2]
         IN  IF related_mem.id \notin seen_ids
             THEN add_related_of_any_similarity(Tail(related), memory, similarity_threshold,
                      seen_ids \cup {related_mem.id},
                      Append(associated_memories,
                             <<related_mem, rel_similarity, related_to(memory)>>))
             ELSE add_related_of_any_similarity(Tail(related), memory, similarity_threshold,
                                                seen_ids, associated_memories)

RECURSIVE add_related(_, _, _, _, _)
\* the inner loop: the related memories of one primary result that meet the
\* threshold and are not yet seen
add_related(related, memory, similarity_threshold, seen_ids, associated_memories) ==
    IF related = <<>> THEN [seen_ids |-> seen_ids, associated_memories |-> associated_memories]
    ELSE LET related_mem == Head(related)[1]
             rel_similarity == Head(related)[2]
         IN  IF rel_similarity >= similarity_threshold /\ related_mem.id \notin seen_ids
             THEN add_related(Tail(related), memory, similarity_threshold,
                              seen_ids \cup {related_mem.id},
                              Append(associated_memories,
                                     <<related_mem, rel_similarity, related_to(memory)>>))
             ELSE add_related(Tail(related), memory, similarity_threshold,
                              seen_ids, associated_memories)

RECURSIVE lateral_expansion_from(_, _, _, _, _, _, _, _, _, _)
\* the outer loop over the primary results, from the given one on
lateral_expansion_from(colls, today, primary_results, memory_types, min_salience, include_decayed, lateral_expansion, similarity_threshold, seen_ids, associated_memories) ==
    IF primary_results = <<>> THEN associated_memories
    ELSE LET memory == Head(primary_results)[1]
             primary_similarity == Head(primary_results)[2]
             related == search_by_embedding(colls, today, embed(memory.content),
                                            memory_types, lateral_expansion, min_salience,
                                            include_decayed, seen_ids)
             added == IF primary_similarity < similarity_threshold
                      THEN [seen_ids |-> seen_ids,
                            associated_memories |-> associated_memories]
                      ELSE add_related(related, memory, similarity_threshold, seen_ids,
                                       associated_memories)
         IN  lateral_expansion_from(colls, today, Tail(primary_results), memory_types,
                                    min_salience, include_decayed, lateral_expansion,
                                    similarity_threshold, added.seen_ids,
                                    added.associated_memories)

\* a variant of the early return that only looks at the primary results
skips_expansion_only_when_empty(primary_results, lateral_expansion) ==
    primary_results = <<>>

\* not primary_results or lateral_expansion <= 0
skips_expansion(primary_results, lateral_expansion) ==
    primary_results = <<>> \/ lateral_expansion <= 0

\* the result dict of search_associative once clustering is done
associative_result(primary_results, associated_memories, clusters) ==
    [primary_results |-> primary_results,
     associated_memories |-> associated_memories,
     clusters |-> clusters,
     patterns |-> extract_patterns(clusters)]

\* the clustering of the primary and the associated memories together
clustered_result(primary_results, associated_memories, similarity_threshold) ==
    associative_result(primary_results, associated_memories,
        cluster_memories(primary_results
                         \o [j \in DOMAIN associated_memories |->
                                 <<associated_memories[j][1], associated_memories[j][2]>>],
                         similarity_threshold))

\* search_associative from its primary results on
expanded_from(colls, today, primary_results, memory_types, min_salience, include_decayed, lateral_expansion, similarity_threshold) ==
    IF skips_expansion(primary_results, lateral_expansion)
    THEN [primary_results |-> primary_results,
          associated_memories |-> <<>>,
          clusters |-> IF primary_results # <<>> THEN <<primary_results>> ELSE <<>>,
          patterns |-> <<>>]
    ELSE clustered_result(primary_results,
             lateral_expansion_from(colls, today, primary_results, memory_types,
                                    min_salience, include_decayed, lateral_expansion,
                                    similarity_threshold,
                                    {primary_results[j][1].id : j \in DOMAIN primary_results},
                                    <<>>),
             similarity_threshold)

\* MemoryStore.search_associative
search_associative(colls, today, query, memory_types, n_results, min_salience, include_decayed, lateral_expansion, similarity_threshold) ==
    expanded_from(colls, today,
                  search(colls, today, query, memory_types, n_results, min_salience,
                         include_decayed),
                  memory_types, min_salience, include_decayed, lateral_expansion,
                  similarity_threshold)

\* ------------------------------------------------------------------------
\* consent.py: ConsentLayer.check_retrieval_consent, request_deletion
\* ------------------------------------------------------------------------

\* a variant of the loop body that applies the stricter bar to every reason
keeps_strict_for_every_reason(cfg, dels, reason, memory, sim) ==
    /\ memory.id \notin dels
    /\ sim >= cfg.require_relevance_threshold + 100

\* a variant of the loop body that ignores the deletion set
keeps_ignoring_deletions(cfg, dels, reason, memory, sim) ==
    /\ sim >= cfg.require_relevance_threshold
    /\ \/ reason # "context_triggered"
       \/ sim >= cfg.require_relevance_threshold + 100

\* a variant of the loop body in which explicit requests get the stricter bar
keeps_explicit_stricter(cfg, dels, reason, memory, sim) ==
    /\ memory.id \notin dels
    /\ sim >= cfg.require_relevance_threshold
    /\ \/ reason # "explicit_request"
       \/ sim >= cfg.require_relevance_threshold + 100

\* the body of the loop: whether a candidate is appended to filtered
keeps(cfg, dels, reason, memory, sim) ==
    IF memory.id \in dels THEN FALSE
    ELSE IF sim < cfg.require_relevance_threshold THEN FALSE
    ELSE IF reason = "explicit_request" THEN TRUE
    ELSE IF reason = "context_triggered"
            /\ sim < cfg.require_relevance_threshold + 100 THEN FALSE
    ELSE TRUE

check_retrieval_consent(cfg, dels, query, reason, candidate_memories) ==
    Prefix(SelectSeq(candidate_memories,
                     LAMBDA c : keeps(cfg, dels, reason, c[1], c[2])),
           cfg.max_results_per_query)

\* ConsentLayer.request_deletion: the deletion set afterwards (returns True)
request_deletion(dels, memory_id) == dels \cup {memory_id}

\* a variant in which a thread adds to the contents it saw when it was called
set_added_to_copy(current, seen) == seen

\* self._user_deletions.add(...) in a thread: the attribute is a reference
\* to the one set object, so the add (one step of the interpreter) acts on
\* the set's current contents, not on those seen when the call began
set_added_to(current, seen) == current

\* ------------------------------------------------------------------------
\* consent.py: ReflectiveConsent
\* ------------------------------------------------------------------------

correction_signals ==
    {<<"a","c","t","u","a","l","l","y">>,
     <<"c","o","r","r","e","c","t","i","o","n">>,
     <<"i"," ","w","a","s"," ","w","r","o","n","g">>,
     <<"m","i","s","t","a","k","e">>}

emotional_signals ==
    {<<"f","e","l","t">>,
     <<"m","o","v","e","d">>,
     <<"g","r","a","t","e","f","u","l">>,
     <<"f","r","u","s","t","r","a","t","e","d">>,
     <<"c","u","r","i","o","u","s">>,
     <<"e","x","c","i","t","e","d">>}

self_reflection_signals ==
    {<<"i"," ","n","o","t","i","c","e","d">>,
     <<"i"," ","r","e","a","l","i","z","e","d">>,
     <<"i"," ","t","e","n","d"," ","t","o">>}

any_signal(signals, content) == \E sig \in signals : contains(lower(content), sig)

\* a variant of the decision list that looks for emotional words first
would_future_self_value_emotion_first(content, memory_type) ==
    IF memory_type = "identity"
    THEN [should_store |-> TRUE, reason |-> "identity", suggested_salience |-> 800]
    ELSE IF any_signal(emotional_signals, content)
    THEN [should_store |-> TRUE, reason |-> "emotional", suggested_salience |-> 600]
    ELSE IF any_signal(correction_signals, content)
    THEN [should_store |-> TRUE, reason |-> "correction", suggested_salience |-> 700]
    ELSE IF any_signal(self_reflection_signals, content)
    THEN [should_store |-> TRUE, reason |-> "self_observation", suggested_salience |-> 700]
    ELSE IF Len(content) < 50
    THEN [should_store |-> FALSE, reason |-> "too_brief", suggested_salience |-> 200]
    ELSE [should_store |-> TRUE, reason |-> "default", suggested_salience |-> 400]

\* ReflectiveConsent.would_future_self_value_this
would_future_self_value_this(content, memory_type) ==
    IF memory_type = "identity"
    THEN [should_store |-> TRUE, reason |-> "identity", suggested_salience |-> 800]
    ELSE IF any_signal(correction_signals, content)
    THEN [should_store |-> TRUE, reason |-> "correction", suggested_salience |-> 700]
    ELSE IF any_signal(emotional_signals, content)
    THEN [should_store |-> TRUE, reason |-> "emotional", suggested_salience |-> 600]
    ELSE IF any_signal(self_reflection_signals, content)
    THEN [should_store |-> TRUE, reason |-> "self_observation", suggested_salience |-> 700]
    ELSE IF Len(content) < 50
    THEN [should_store |-> FALSE, reason |-> "too_brief", suggested_salience |-> 200]
    ELSE [should_store |-> TRUE, reason |-> "default", suggested_salience |-> 400]

\* set(text.lower().split())
words(text) == Range(split(lower(text)))

\* a variant that lets high salience override the two rejections
is_relevant_salience_first(query, memory, sim) ==
    LET query_words == words(query)
        content_words == words(memory.content)
        shared == Cardinality(query_words \cap content_words)
        total == IF Cardinality(query_words) > 1 THEN Cardinality(query_words) ELSE 1
    IN  IF sim > 850 THEN TRUE
        ELSE IF memory.salience > 700 THEN TRUE
        ELSE IF 2 * shared > total /\ sim < 600 THEN FALSE
        ELSE IF memory.memory_type \in {"identity", "procedural"} /\ sim < 600 THEN FALSE
        ELSE sim > 500

\* ReflectiveConsent.is_this_relevant_or_pattern_matching
is_this_relevant_or_pattern_matching(query, memory, sim) ==
    LET query_words == words(query)
        content_words == words(memory.content)
        shared == Cardinality(query_words \cap content_words)
        total == IF Cardinality(query_words) > 1 THEN Cardinality(query_words) ELSE 1
    IN  IF sim > 850 THEN TRUE
        ELSE IF 2 * shared > total /\ sim < 600 THEN FALSE
        ELSE IF memory.memory_type \in {"identity", "procedural"} /\ sim < 600 THEN FALSE
        ELSE IF memory.salience > 700 THEN TRUE
        ELSE sim > 500

\* ------------------------------------------------------------------------
\* system.py: MemorySystem retrieval
\* ------------------------------------------------------------------------

\* MemorySystem.retrieve: the memories returned
retrieve(colls, dels, cfg, today, query, memory_types, n_results, reason) ==
    LET candidates == search(colls, today, query, memory_types, n_results * 2, 0, FALSE)
        filtered == check_retrieval_consent(cfg, dels, query, reason, candidates)
        final_results == SelectSeq(filtered, LAMBDA c :
                            is_this_relevant_or_pattern_matching(query, c[1], c[2]))
    IN  Prefix([j \in DOMAIN final_results |-> final_results[j][1]], n_results)

\* MemorySystem.remember
remember(colls, dels, cfg, today, query, n_results) ==
    retrieve(colls, dels, cfg, today, query, None, n_results, "explicit_request")

\* the default query of get_what_works
WhatWorksQuery ==
    <<"w","h","a","t"," ","w","o","r","k","s"," ","w","e","l","l"," ","a","p","p","r","o","a","c","h","e","s"," ","t","h","a","t"," ","s","u","c","c","e","e","d">>

\* MemorySystem.get_what_works
get_what_works(colls, dels, cfg, today, context) ==
    retrieve(colls, dels, cfg, today, OrElse(context, WhatWorksQuery),
             Some(<<"procedural">>), 20, "skill_application")

\* ------------------------------------------------------------------------
\* embeddings.py: SalienceCalculator
\* ------------------------------------------------------------------------

clamp(x, lo, hi) == IF x < lo THEN lo ELSE IF x > hi THEN hi ELSE x

\* a variant of the arithmetic in which similarity to prior memories raises
\* the score
salience_rewarding_similarity(emotional_valence, is_identity_related, max_similarity) ==
    clamp(500 + (Abs(emotional_valence) * 3) \div 10
              + (IF is_identity_related THEN 200 ELSE 0)
              + (IF max_similarity = None THEN 0 ELSE (max_similarity[1] * 2) \div 10),
          0, One)

\* the arithmetic of calculate_salience, given the largest similarity the
\* embedding engine reports between the content and the existing embeddings
\* (None when there are no existing embeddings)
salience_given(emotional_valence, is_identity_related, max_similarity) ==
    LET emotional_factor == (Abs(emotional_valence) * 3) \div 10
        identity_factor == IF is_identity_related THEN 200 ELSE 0
        novelty_factor == IF max_similarity = None THEN 0
                          ELSE ((One - max_similarity[1]) * 2) \div 10
    IN  clamp(500 + emotional_factor + identity_factor + novelty_factor, 0, One)

\* SalienceCalculator.calculate_salience; existing_embeddings is Optional
calculate_salience(content, emotional_valence, existing_embeddings, is_identity_related) ==
    LET existing == OrElse(existing_embeddings, <<>>)
        max_similarity == Max({similarity(embed(content), existing[i]) : i \in DOMAIN existing})
    IN  salience_given(emotional_valence, is_identity_related,
                       IF existing = <<>> THEN None ELSE Some(max_similarity))

\* MemoryStore.get_embeddings_for_type
get_embeddings_for_type(colls, memory_type, limit) ==
    LET ids == Prefix(SetToSeq(DOMAIN colls[memory_type]), limit)
    IN  [j \in DOMAIN ids |-> embed(colls[memory_type][ids[j]].document)]

\* ------------------------------------------------------------------------
\* system.py: the storage entry points of MemorySystem.  Each yields the
\* outcome of the call: the id returned (None when declined), whether pydantic
\* raised on constructing the memory, and the memory handed to the store.
\* ------------------------------------------------------------------------

Declined == [id |-> None, raised |-> FALSE, memory |-> None]

\* the model constructors validate salience, decay_rate in [0,1] and
\* emotional_valence in [-1,1] (models.py Field(ge=..., le=...))
Constructed(m) ==
    IF validates(m)
    THEN [id |-> Some(m.id), raised |-> FALSE, memory |-> Some(m)]
    ELSE [id |-> None, raised |-> TRUE, memory |-> None]

\* MemorySystem.store_episodic
store_episodic(colls, cfg, today, new_id, content, emotional_valence, tags) ==
    LET existing_embeddings == get_embeddings_for_type(colls, "episodic", 50)
        calculated == calculate_salience(content, emotional_valence,
                          IF existing_embeddings # <<>>
                          THEN Some(existing_embeddings) ELSE None, FALSE)
        reflection == would_future_self_value_this(content, "episodic")
        salience == IF calculated >= reflection.suggested_salience
                    THEN calculated ELSE reflection.suggested_salience
        consent_result == check_storage_consent(cfg, content, "episodic",
                              "significant_moment", salience, user_consented_default)
    IN  IF ~reflection.should_store THEN Declined
        ELSE IF ~consent_result.should_proceed THEN Declined
        ELSE Constructed(Memory(new_id, "episodic",
                                OrElse(consent_result.modified_content, content),
                                salience, 0, today, today, tags, emotional_valence))

\* MemorySystem.store_semantic
store_semantic(colls, cfg, today, new_id, content, category, tags) ==
    LET reason == IF category = "correction" THEN "correction"
                  ELSE IF category = "user_context" THEN "relationship"
                  ELSE "learned_something"
        base_salience == IF category = "correction" THEN 600 ELSE 500
        existing_embeddings == get_embeddings_for_type(colls, "semantic", 50)
        calculated == calculate_salience(content, 0,
                          IF existing_embeddings # <<>>
                          THEN Some(existing_embeddings) ELSE None, FALSE)
        salience == IF calculated >= base_salience THEN calculated ELSE base_salience
        consent_result == check_storage_consent(cfg, content, "semantic", reason,
                                                salience, user_consented_default)
    IN  IF ~consent_result.should_proceed THEN Declined
        ELSE Constructed(Memory(new_id, "semantic",
                                OrElse(consent_result.modified_content, content),
                                salience, 0, today, today, tags, 0))

\* MemorySystem.store_procedural
store_procedural(colls, cfg, today, new_id, content, outcome, tags) ==
    LET salience == IF outcome = "positive" THEN 700
                    ELSE IF outcome = "negative" THEN 600 ELSE 500
        consent_result == check_storage_consent(cfg, content, "procedural",
                                                "behavioral_insight", salience, user_consented_default)
    IN  IF ~consent_result.should_proceed THEN Declined
        ELSE Constructed(Memory(new_id, "procedural",
                                OrElse(consent_result.modified_content, content),
                                salience, 0, today, today, tags, 0))

\* MemorySystem.store_procedural called with a success_rate: ProceduralMemory
\* is built with success_rate if outcome == "positive" else 0.0, and its
\* constructor validates that field to [0,1] (the record of the model does
\* not carry the field)
store_procedural_rated(colls, cfg, today, new_id, content, outcome, success_rate, tags) ==
    LET passed == IF outcome = "positive" THEN success_rate ELSE 0
        built == store_procedural(colls, cfg, today, new_id, content, outcome, tags)
    IN  IF built.memory # None /\ passed \notin 0..One
        THEN [id |-> None, raised |-> TRUE, memory |-> None]
        ELSE built

\* MemorySystem.store_identity
store_identity(colls, cfg, today, new_id, content, tags) ==
    LET salience == 800
        consent_result == check_storage_consent(cfg, content, "identity",
                                                "identity_affirmation", salience, user_consented_default)
    IN  IF ~consent_result.should_proceed THEN Declined
        ELSE Constructed(Memory(new_id, "identity",
                                OrElse(consent_result.modified_content, content),
                                salience, 0, today, today, tags, 0))

\* a variant of the entry points that upserts the candidate before the
\* checks and returns None when they reject it
store_of_kind_upserting_first(kind, colls, cfg, today, new_id, content, extra, tags) ==
    LET outcome ==
            CASE kind = "episodic" -> store_episodic(colls, cfg, today, new_id, content, extra, tags)
              [] kind = "semantic" -> store_semantic(colls, cfg, today, new_id, content, extra, tags)
              [] kind = "procedural" -> store_procedural(colls, cfg, today, new_id, content, extra, tags)
              [] kind = "identity" -> store_identity(colls, cfg, today, new_id, content, tags)
    IN  IF outcome.memory = None /\ ~outcome.raised
        THEN [id |-> None, raised |-> FALSE,
              memory |-> Some(Memory(new_id, kind, content, 500, 0, today, today, tags, 0))]
        ELSE outcome

\* the entry point of each kind, on the arguments the model varies
store_of_kind(kind, colls, cfg, today, new_id, content, extra, tags) ==
    CASE kind = "episodic" -> store_episodic(colls, cfg, today, new_id, content, extra, tags)
      [] kind = "semantic" -> store_semantic(colls, cfg, today, new_id, content, extra, tags)
      [] kind = "procedural" -> store_procedural(colls, cfg, today, new_id, content, extra, tags)
      [] kind = "identity" -> store_identity(colls, cfg, today, new_id, content, tags)

\* ------------------------------------------------------------------------
\* The state of a freshly constructed MemorySystem
\* ------------------------------------------------------------------------

\* a collection holding no record
EmptyCollection == [i \in {} |-> None]

\* MemoryStore.__init__ and ConsentLayer.__init__
FreshSystem ==
    /\ collections = [k \in Kinds |-> EmptyCollection]
    /\ deletions = {}
    /\ nextId = 0
    /\ now = 0

\* ------------------------------------------------------------------------
\* The MemorySystem as a state machine: one action per facade call
\* ------------------------------------------------------------------------

\* how many ids uuid4 hands out
MaxIds == 1

\* the return value of a call that raised
Raised == <<"ValidationError", "raised">>

\* the ids a caller may name: those handed out so far and one that never is
Ids == (1..nextId) \cup {MaxIds + 1}

\* "felt oK": carries an emotional signal and the redaction pattern
TextFelt == <<"f","e","l","t"," ","o","K">>

\* "ab cd": brief, no signal phrase
TextBrief == <<"a","b"," ","c","d">>

\* "ax": matches the never-store pattern of SystemConfigs
TextSecret == <<"a","x">>

Texts == {TextFelt, TextBrief}

\* the contents each storage entry point is called with
Contents ==
    [k \in Kinds |-> CASE k = "episodic" -> Texts
                       [] k = "semantic" -> {TextBrief, TextSecret}
                       [] k = "procedural" -> {TextBrief}
                       [] k = "identity" -> {TextFelt}]

Queries == {<<"d">>}

\* the configuration the system runs with
SystemConfigs ==
    {[DefaultConfig EXCEPT !.min_content_length = 2,
                           !.redact_patterns = << <<"K">> >>,
                           !.never_store_patterns = << <<"x">> >>]}

\* the kind-specific argument of each storage entry point: emotional_valence,
\* category, outcome; none for identity
ExtraArguments ==
    [k \in Kinds |-> CASE k = "episodic" -> {0}
                       [] k = "semantic" -> {"learned"}
                       [] k = "procedural" -> {"positive"}
                       [] k = "identity" -> {0}]

Snapshot(newcall) ==
    [collections |-> collections, deletions |-> deletions, repeats |-> call = newcall]

Init ==
    /\ FreshSystem
    /\ config \in SystemConfigs
    /\ call = [op |-> "init"]
    /\ ret = None
    /\ before = None

\* store_episodic, store_semantic, store_procedural, store_identity
Store(kind, content, extra) ==
    LET newcall == [op |-> "store", kind |-> kind, content |-> content, extra |-> extra]
        outcome == store_of_kind(kind, collections, config, now, nextId + 1,
                                 content, extra, <<>>)
    IN  /\ outcome.memory # None => nextId < MaxIds
        /\ call' = newcall
        /\ before' = Snapshot(newcall)
        /\ ret' = IF outcome.raised THEN Raised ELSE Some(outcome.id)
        /\ IF outcome.memory # None
           THEN /\ collections' = store(collections, outcome.memory[1])
                /\ nextId' = nextId + 1
           ELSE UNCHANGED <<collections, nextId>>
        /\ UNCHANGED <<deletions, now, config>>

\* MemorySystem.retrieve
Retrieve(query, memory_types, n_results, reason) ==
    LET newcall == [op |-> "retrieve", query |-> query, memory_types |-> memory_types,
                    n_results |-> n_results, reason |-> reason]
    IN  /\ call' = newcall
        /\ before' = Snapshot(newcall)
        /\ ret' = Some(retrieve(collections, deletions, config, now, query,
                                memory_types, n_results, reason))
        /\ UNCHANGED <<collections, deletions, nextId, now, config>>

\* MemorySystem.remember
Remember(query, n_results) ==
    LET newcall == [op |-> "remember", query |-> query, n_results |-> n_results]
    IN  /\ call' = newcall
        /\ before' = Snapshot(newcall)
        /\ ret' = Some(remember(collections, deletions, config, now, query, n_results))
        /\ UNCHANGED <<collections, deletions, nextId, now, config>>

\* MemorySystem.get_what_works
GetWhatWorks(context) ==
    LET newcall == [op |-> "get_what_works", context |-> context]
    IN  /\ call' = newcall
        /\ before' = Snapshot(newcall)
        /\ ret' = Some(get_what_works(collections, deletions, config, now, context))
        /\ UNCHANGED <<collections, deletions, nextId, now, config>>

\* MemorySystem.forget (ConsentLayer.request_deletion, then MemoryStore.delete),
\* of an id the caller can name
Forget(memory_id) ==
    LET newcall == [op |-> "forget", memory_id |-> memory_id]
        deleted == delete(collections, memory_id)
    IN  /\ memory_id \in Ids
        /\ call' = newcall
        /\ before' = Snapshot(newcall)
        /\ deletions' = request_deletion(deletions, memory_id)
        /\ collections' = deleted.collections
        /\ ret' = Some(deleted.result)
        /\ UNCHANGED <<nextId, now, config>>

\* hasattr(memory, key)
has_attribute(memory, key) ==
    /\ key \in DOMAIN memory
    /\ key = "emotional_valence" => memory.memory_type = "episodic"

\* the setattr loop of update_memory
with_updates(memory, updates) ==
    [f \in DOMAIN memory |->
        IF f \in DOMAIN updates /\ has_attribute(memory, f)
        THEN (IF f = "emotional_valence" THEN Some(updates[f]) ELSE updates[f])
        ELSE memory[f]]

\* MemorySystem.update_memory: the id returned and the collections afterwards
update_memory(colls, today, memory_id, updates) ==
    LET memory == retrieve_by_id(colls, memory_id)
        updated == [with_updates(memory[1], updates) EXCEPT !.updated_at = today]
    IN  IF memory = None THEN [id |-> None, collections |-> colls]
        ELSE [id |-> Some(updated.id), collections |-> store(colls, updated)]

RECURSIVE import_records(_, _, _)
\* the inner loop of import_memories over the records listed under one kind
import_records(state, memories, dummy) ==
    IF memories = <<>> \/ state.raised THEN state
    ELSE LET mem_data == Head(memories)
             built == Constructed(from_storage_dict(mem_data.metadata, mem_data.content))
         IN  import_records(
                 IF built.raised THEN [state EXCEPT !.raised = TRUE]
                 ELSE [state EXCEPT !.collections = store(@, built.memory[1]),
                                    !.count = @ + 1],
                 Tail(memories), dummy)

RECURSIVE import_memories_from(_, _)
\* MemoryStore.import_memories: data lists <<kind, records>> in dict order
import_memories_from(state, data) ==
    IF data = <<>> \/ state.raised THEN state
    ELSE import_memories_from(import_records(state, Head(data)[2], Head(data)[1]),
                              Tail(data))

import_memories(colls, data) ==
    import_memories_from([collections |-> colls, count |-> 0, raised |-> FALSE], data)

\* MemoryStore.export_all: for every kind the records of its collection
export_all(colls) ==
    [t \in DOMAIN MemoryType |->
        LET ids == SetToSeq(DOMAIN colls[MemoryType[t]])
        IN  <<MemoryType[t],
              [j \in DOMAIN ids |-> [id |-> ids[j],
                                     content |-> colls[MemoryType[t]][ids[j]].document,
                                     metadata |-> colls[MemoryType[t]][ids[j]].metadata]]>>]

\* the updates a caller passes to update_memory
Updates == {[salience |-> 200]}

\* the ids update_memory is called with: the first id and one never handed out
UpdateIds == {1, MaxIds + 1}

\* the exports a caller feeds to import_memories: one brief episodic record
\* under the first id
ImportData ==
    {<< <<k, <<[id |-> i, content |-> TextBrief,
                metadata |-> to_storage_dict(Memory(i, k, TextBrief, 500, 0, 0, 0, <<>>, 0))]>> >> >> :
        i \in {1}, k \in {"episodic"}}

\* MemorySystem.update_memory
UpdateMemory(memory_id, updates) ==
    LET newcall == [op |-> "update_memory", memory_id |-> memory_id, updates |-> updates]
        outcome == update_memory(collections, now, memory_id, updates)
    IN  /\ call' = newcall
        /\ before' = Snapshot(newcall)
        /\ collections' = outcome.collections
        /\ ret' = Some(outcome.id)
        /\ UNCHANGED <<deletions, nextId, now, config>>

\* MemorySystem.import_memories, of an export that names ids handed out
ImportMemories(data) ==
    LET newcall == [op |-> "import_memories", data |-> data]
        outcome == import_memories(collections, data)
    IN  /\ \A j \in DOMAIN data : \A r \in Range(data[j][2]) : r.id \in Ids
        /\ call' = newcall
        /\ before' = Snapshot(newcall)
        /\ collections' = outcome.collections
        /\ ret' = IF outcome.raised THEN Raised ELSE Some(outcome.count)
        /\ UNCHANGED <<deletions, nextId, now, config>>

\* MemorySystem.export
Export ==
    LET newcall == [op |-> "export"]
    IN  /\ call' = newcall
        /\ before' = Snapshot(newcall)
        /\ ret' = Some(export_all(collections))
        /\ UNCHANGED <<collections, deletions, nextId, now, config>>

Next ==
    \/ \E kind \in Kinds :
          \E content \in Contents[kind], extra \in ExtraArguments[kind] :
             Store(kind, content, extra)
    \/ \E query \in Queries, reason \in RetrievalReason :
          Retrieve(query, None, 2, reason)
    \/ \E query \in Queries : Remember(query, 2)
    \/ GetWhatWorks(None)
    \/ \E memory_id \in 1..(MaxIds + 1) : Forget(memory_id)
    \/ \E memory_id \in UpdateIds, updates \in Updates :
          UpdateMemory(memory_id, updates)
    \/ \E data \in ImportData : ImportMemories(data)
    \/ Export

Spec == Init /\ [][Next]_vars

\* ------------------------------------------------------------------------
\* check_storage_consent on its own: every input of a bounded domain
\* ------------------------------------------------------------------------

MaxContentLen == 3

ConsentAlphabet == {"a", "k", "K", " "}

RECURSIVE StringsUpTo(_, _)
StringsUpTo(alphabet, n) ==
    IF n = 0 THEN {<<>>}
    ELSE LET shorter == StringsUpTo(alphabet, n - 1)
         IN  shorter \cup {Append(s, c) : s \in {t \in shorter : Len(t) = n - 1},
                                          c \in alphabet}

ConsentContents == StringsUpTo(ConsentAlphabet, MaxContentLen)

\* the pattern lists tried for never_store_patterns and redact_patterns
PatternLists == {<<>>, << <<"K">> >>, << <<"a", "k">>, <<"k">> >>}

ConsentConfigs ==
    {[DefaultConfig EXCEPT !.require_explicit_consent = rec,
                           !.auto_approve = [k \in Kinds |-> k \notin off],
                           !.min_content_length = len,
                           !.never_store_patterns = nsp,
                           !.redact_patterns = rp] :
        rec \in BOOLEAN, off \in {{}, {"semantic"}}, len \in {0, 2},
        nsp \in PatternLists, rp \in PatternLists}

\* the reason each facade entry point passes for its kind
ReasonOfKind ==
    [k \in Kinds |-> CASE k = "episodic" -> "significant_moment"
                        [] k = "semantic" -> "learned_something"
                        [] k = "procedural" -> "behavioral_insight"
                        [] k = "identity" -> "identity_affirmation"]

InitConsent ==
    /\ FreshSystem
    /\ config \in ConsentConfigs
    /\ call \in [op : {"check_storage_consent"}, content : ConsentContents,
                  memory_type : Kinds, salience : {200, 800},
                  user_consented : BOOLEAN]
    /\ ret = None
    /\ before = None

Apply_check_storage_consent ==
    /\ call.op = "check_storage_consent"
    /\ ret = None
    /\ ret' = Some(check_storage_consent(config, call.content, call.memory_type,
                                         ReasonOfKind[call.memory_type],
                                         call.salience, call.user_consented))
    /\ UNCHANGED <<collections, deletions, nextId, now, config, call, before>>

NextConsent == Apply_check_storage_consent

SpecConsent == InitConsent /\ [][NextConsent]_vars

\* ------------------------------------------------------------------------
\* check_retrieval_consent and retrieve on their own: every candidate list
\* and every store of a bounded domain
\* ------------------------------------------------------------------------

MaxCandidates == 3

MaxStoreIds == 2

RetrievalConfigs ==
    {[DefaultConfig EXCEPT !.require_relevance_threshold = t,
                           !.max_results_per_query = m] :
        t \in {300, 500}, m \in {1, 10}}

\* the memories offered as candidates: permanent episodic ones under odd
\* ids, decaying semantic ones under even ids
CandidateMemories ==
    {Memory(i, IF i % 2 = 1 THEN "episodic" ELSE "semantic", <<"a">>, 500,
            IF i % 2 = 1 THEN 0 ELSE 500, 0, 0, <<>>, 0) : i \in 1..MaxCandidates}

CandidatePairs == CandidateMemories \X {400, 550, 600}

\* no memory occurs twice in a candidate list
DistinctIds(l) == \A i, j \in DOMAIN l : i # j => l[i][1].id # l[j][1].id

RECURSIVE ListsUpTo(_, _)
ListsUpTo(S, n) ==
    IF n = 0 THEN {<<>>}
    ELSE LET shorter == ListsUpTo(S, n - 1)
         IN  shorter \cup {l \in {Append(t, x) : t \in {u \in shorter : Len(u) = n - 1},
                                                   x \in S} : DistinctIds(l)}

\* what a stored record may hold: a text only loosely similar to the query
\* "d" with high salience, or a close one with low salience
StoredBodies == {<< <<"b">>, 1000 >>, << <<"a">>, 200 >>}

\* where the records of the ids may lie: each id in the episodic or the
\* procedural collection
StoresOver(ids) ==
    {[k \in Kinds |-> IF k = "episodic" THEN E
                      ELSE IF k = "procedural" THEN ids \ E ELSE {}] : E \in SUBSET ids}

StoresHolding(n) ==
    UNION {{[k \in Kinds |->
               [i \in placement[k] |->
                   LET m == Memory(i, k, shape[i][1], shape[i][2], 0, 0, 0, <<>>, 0)
                   IN  [document |-> m.content, metadata |-> to_storage_dict(m)]]] :
              shape \in [1..n -> StoredBodies]} :
           placement \in StoresOver(1..n)}

RetrievalQueries == {<<"d">>, <<"b">>}

InitRetrieval ==
    /\ nextId = 0 /\ now = 0 /\ ret = None /\ before = None
    /\ config \in RetrievalConfigs
    /\ \/ /\ collections = [k \in Kinds |-> EmptyCollection]
          /\ deletions \in SUBSET {1, 2}
          /\ call \in [op : {"check_retrieval_consent"}, query : {<<"d">>},
                       reason : RetrievalReason,
                       candidates : ListsUpTo(CandidatePairs, MaxCandidates)]
       \/ /\ collections \in StoresHolding(MaxStoreIds)
          /\ deletions \in SUBSET {1}
          /\ call \in [op : {"retrieve"}, query : RetrievalQueries,
                       n_results : {1, 2}, reason : {"context_triggered"}]

Apply_check_retrieval_consent ==
    /\ call.op = "check_retrieval_consent"
    /\ ret = None
    /\ ret' = Some(check_retrieval_consent(config, deletions, call.query,
                                           call.reason, call.candidates))
    /\ UNCHANGED <<collections, deletions, nextId, now, config, call, before>>

Apply_retrieve ==
    /\ call.op = "retrieve"
    /\ ret = None
    /\ ret' = Some(retrieve(collections, deletions, config, now, call.query, None,
                            call.n_results, call.reason))
    /\ UNCHANGED <<collections, deletions, nextId, now, config, call, before>>

NextRetrieval == Apply_check_retrieval_consent \/ Apply_retrieve

SpecRetrieval == InitRetrieval /\ [][NextRetrieval]_vars

\* ------------------------------------------------------------------------
\* _cluster_memories and _extract_patterns on their own: every pool of a
\* bounded domain
\* ------------------------------------------------------------------------

MaxPool == 3

\* what a record of the pool may be: kind, content, salience, tags, valence
PoolShapes ==
    {<<"episodic", <<"a">>, 800, << <<"t">> >>, 600>>,
     <<"episodic", <<"b">>, 800, << <<"t">>, <<"t">> >>, -600>>,
     <<"semantic", <<"d">>, 500, <<>>, 0>>,
     <<"semantic", <<"a">>, 500, << <<"t">>, <<"u">> >>, 0>>}

PoolMemories ==
    {Memory(i, sh[1], sh[2], sh[3], 0, 0, 0, sh[4], sh[5]) :
        i \in 1..MaxPool, sh \in PoolShapes}

PoolPairs == PoolMemories \X {550, 900}

ClusterThresholds == {300, 600, 950}

InitCluster ==
    /\ FreshSystem
    /\ config = DefaultConfig
    /\ call \in [op : {"cluster_memories"}, memories : ListsUpTo(PoolPairs, MaxPool),
                 threshold : ClusterThresholds]
    /\ ret = None
    /\ before = None

\* steps 3 and 4 of search_associative: cluster the pool, extract the patterns
Apply_cluster_memories ==
    /\ call.op = "cluster_memories"
    /\ ret = None
    /\ LET clusters == cluster_memories(call.memories, call.threshold)
       IN  ret' = Some([clusters |-> clusters, patterns |-> extract_patterns(clusters)])
    /\ UNCHANGED <<collections, deletions, nextId, now, config, call, before>>

NextCluster == Apply_cluster_memories

SpecCluster == InitCluster /\ [][NextCluster]_vars

\* ------------------------------------------------------------------------
\* Properties of _cluster_memories (under SpecCluster)
\* ------------------------------------------------------------------------

Clustered == call.op = "cluster_memories" /\ ret # None

\* the places (cluster, position) at which a record lies in the clusters
PlacesOf(clusters, record) ==
    {<<c, j>> \in (DOMAIN clusters) \X (1..MaxPool + 1) :
        j \in DOMAIN clusters[c] /\ clusters[c][j] = record}

\* C10: the clusters partition the pool: each input record lies in exactly
\* one cluster, no cluster is empty, no record from outside the pool appears;
\* a pool of one record gives one singleton cluster and no pattern.
C10_ClustersPartitionThePool ==
    Clustered
        => LET clusters == ret[1].clusters
           IN  /\ \A i \in DOMAIN call.memories :
                     Cardinality(PlacesOf(clusters, call.memories[i])) = 1
               /\ \A c \in DOMAIN clusters : clusters[c] # <<>>
               /\ \A c \in DOMAIN clusters :
                     Range(clusters[c]) \subseteq Range(call.memories)
               /\ Len(call.memories) = 1
                     => /\ clusters = <<call.memories>>
                        /\ ret[1].patterns = <<>>

\* a pool of three records has been split into a cluster of two and a
\* singleton, and a pattern was emitted for the cluster of two
C10_Witness ==
    /\ Clustered
    /\ Len(call.memories) = 3
    /\ Len(ret[1].clusters) = 2
    /\ \E c \in DOMAIN ret[1].clusters : Len(ret[1].clusters[c]) = 2
    /\ ret[1].patterns # <<>>

\* ------------------------------------------------------------------------
\* Properties of check_retrieval_consent and retrieve (under SpecRetrieval)
\* ------------------------------------------------------------------------

RetrievalChecked == call.op = "check_retrieval_consent" /\ ret # None

Threshold == config.require_relevance_threshold

\* the candidates that are not deleted and reach the relevance threshold
Eligible ==
    SelectSeq(call.candidates,
              LAMBDA c : c[1].id \notin deletions /\ c[2] >= Threshold)

\* under context_triggered only similarity >= t + 0.1 survives; under every
\* reason similarity < t is dropped
StricterBarAndThreshold ==
    /\ call.reason = "context_triggered"
          => \A j \in DOMAIN ret[1] : ret[1][j][2] >= Threshold + 100
    /\ \A j \in DOMAIN ret[1] : ret[1][j][2] >= Threshold

\* C8 as stated: under explicit_request every non-deleted candidate with
\* similarity >= t is in the result; under context_triggered only similarity
\* >= t + 0.1 survives; under every reason similarity < t is dropped.
C8_EveryEligibleSurvives ==
    RetrievalChecked
        => /\ call.reason = "explicit_request"
                 => \A i \in DOMAIN Eligible : Eligible[i] \in Range(ret[1])
           /\ StricterBarAndThreshold

\* C8 amended: under explicit_request the result is the first
\* max_results_per_query non-deleted candidates with similarity >= t, in input
\* order (all of them when they are no more than that), the +0.1 bar never
\* applied; the statements about context_triggered and about similarity < t
\* stand.
C8_EligibleSurviveUpToTruncation ==
    RetrievalChecked
        => /\ call.reason = "explicit_request"
                 => ret[1] = Prefix(Eligible, config.max_results_per_query)
           /\ StricterBarAndThreshold

\* an explicit request has returned a candidate below the +0.1 bar while a
\* deleted candidate and one below the threshold were dropped
C8_Witness ==
    /\ RetrievalChecked
    /\ call.reason = "explicit_request"
    /\ \E j \in DOMAIN ret[1] : ret[1][j][2] < Threshold + 100
    /\ \E i \in DOMAIN call.candidates : call.candidates[i][1].id \in deletions
    /\ \E i \in DOMAIN call.candidates : call.candidates[i][2] < Threshold

ExplicitResult ==
    check_retrieval_consent(config, deletions, call.query, "explicit_request",
                            call.candidates)

Retrieved == call.op = "retrieve" /\ ret # None

Remembered ==
    remember(collections, deletions, config, now, call.query, call.n_results)

\* C9 as stated: whatever check_retrieval_consent returns under any reason it
\* also returns under explicit_request, truncation included; and
\* remember(q, n) returns every record that retrieve(q, n_results=n) returns.
C9_ExplicitIsSuperset ==
    /\ RetrievalChecked => Range(ret[1]) \subseteq Range(ExplicitResult)
    /\ Retrieved => Range(ret[1]) \subseteq Range(Remembered)

\* the candidates of retrieve and what explicit recall keeps of them
SearchCandidates ==
    search(collections, now, call.query, None, call.n_results * 2, 0, FALSE)

ExplicitlyEligible ==
    SelectSeq(SearchCandidates,
              LAMBDA c : c[1].id \notin deletions /\ c[2] >= Threshold)

ExplicitlyRelevant ==
    SelectSeq(ExplicitlyEligible,
              LAMBDA c : is_this_relevant_or_pattern_matching(call.query, c[1], c[2]))

\* C9 amended: the superset relation holds whenever truncation cuts nothing
\* from the explicit result: for check_retrieval_consent when at most
\* max_results_per_query candidates are non-deleted with similarity >= t, and
\* for remember(q, n) against retrieve(q, n_results=n) when moreover at most
\* n of them pass the relevance check.
C9_ExplicitIsSupersetUnlessTruncated ==
    /\ (RetrievalChecked /\ Len(Eligible) <= config.max_results_per_query)
          => Range(ret[1]) \subseteq Range(ExplicitResult)
    /\ (Retrieved /\ Len(ExplicitlyEligible) <= config.max_results_per_query
                  /\ Len(ExplicitlyRelevant) <= call.n_results)
          => Range(ret[1]) \subseteq Range(Remembered)

\* a context-triggered check has returned a candidate, explicit recall keeps
\* strictly more, and nothing was truncated
C9_Witness ==
    /\ RetrievalChecked
    /\ call.reason = "context_triggered"
    /\ ret[1] # <<>>
    /\ Len(Eligible) <= config.max_results_per_query
    /\ Len(ExplicitResult) > Len(ret[1])

\* ------------------------------------------------------------------------
\* Properties of check_storage_consent (under SpecConsent)
\* ------------------------------------------------------------------------

StorageChecked == call.op = "check_storage_consent" /\ ret # None

\* a pattern occurs in the text, letter case ignored
OccursIn(pattern, text) == contains(lower(text), lower(pattern))

NeverStoreMatches ==
    \E i \in 1..Len(config.never_store_patterns) :
        OccursIn(config.never_store_patterns[i], call.content)

\* C4: content that contains a never-store pattern (letter case ignored) is
\* rejected whatever the kind, salience, consent flag and redaction patterns
\* are, and the rejection carries no modified content.
C4_NeverStoreWins ==
    (StorageChecked /\ NeverStoreMatches)
        => (~ret[1].should_proceed /\ ret[1].modified_content = None)

\* a never-store pattern and a redaction pattern match the same substring of
\* content that passes every other check, and the check has rejected it
C4_Witness ==
    /\ StorageChecked
    /\ \E i \in 1..Len(config.never_store_patterns) :
       \E j \in 1..Len(config.redact_patterns) :
          /\ config.never_store_patterns[i] = config.redact_patterns[j]
          /\ contains(call.content, config.redact_patterns[j])
    /\ Len(strip(call.content)) >= config.min_content_length
    /\ config.auto_approve[call.memory_type]
    /\ call.user_consented
    /\ call.salience >= config.min_salience_for_auto
    /\ ~ret[1].should_proceed

\* the reason of the first failing check, in the order of the claim
FirstFailingCheck ==
    IF NeverStoreMatches THEN "never_store"
    ELSE IF Len(strip(call.content)) < config.min_content_length THEN "too_short"
    ELSE IF config.require_explicit_consent /\ ~call.user_consented
         THEN "consent_required"
    ELSE IF ~config.auto_approve[call.memory_type] THEN "auto_approval_disabled"
    ELSE IF call.salience < config.min_salience_for_auto
         THEN "salience_below_threshold"
    ELSE "none"

\* C5: the check proceeds exactly when none of the five rejecting conditions
\* holds, and a rejection reports the reason of the first failing check in
\* the order never-store, length, explicit consent, auto-approval, salience.
C5_FirstFailingCheckDecides ==
    StorageChecked
        => /\ ret[1].should_proceed <=> (FirstFailingCheck = "none")
           /\ ~ret[1].should_proceed => ret[1].reason = FirstFailingCheck

\* content that is too short only once trimmed, with high salience and with
\* two later checks failing as well, is rejected for its length
C5_Witness ==
    /\ StorageChecked
    /\ Len(call.content) >= config.min_content_length
    /\ call.salience = 800
    /\ config.require_explicit_consent /\ ~call.user_consented
    /\ ~config.auto_approve[call.memory_type]
    /\ ~ret[1].should_proceed
    /\ ret[1].reason = "too_short"

\* the content the facade stores after an accepting check
ContentToStore == OrElse(ret[1].modified_content, call.content)

\* C6: whenever the check accepts, every redaction pattern present in the
\* content (letter case ignored) has been replaced by the marker, so the
\* content to store contains no redaction pattern in any letter case.
C6_RedactionComplete ==
    (StorageChecked /\ ret[1].should_proceed)
        => \A j \in 1..Len(config.redact_patterns) :
              ~OccursIn(config.redact_patterns[j], ContentToStore)

\* ------------------------------------------------------------------------
\* Deletion and the storage entry points of the facade (under Spec)
\* ------------------------------------------------------------------------

RetrievalCalled == call.op \in {"retrieve", "remember", "get_what_works"}

\* what the retrieval call of this state returns for a given deletion set
RetrievalResult(dels) ==
    CASE call.op = "retrieve" ->
            retrieve(collections, dels, config, now, call.query, call.memory_types,
                     call.n_results, call.reason)
      [] call.op = "remember" ->
            remember(collections, dels, config, now, call.query, call.n_results)
      [] call.op = "get_what_works" ->
            get_what_works(collections, dels, config, now, call.context)

\* C1: an id that forget has recorded stays recorded, and no retrieve,
\* remember or get_what_works call returns a record under a recorded id,
\* whatever store, import and update calls came in between and whether or
\* not the store holds a record under that id.
C1_DeletedNeverRetrieved ==
    /\ [](RetrievalCalled
            => \A j \in 1..Len(ret[1]) : ret[1][j].id \notin deletions)
    /\ [][deletions \subseteq deletions']_vars

\* a retrieval that would return a forgotten id: the record is back in the
\* episodic collection (imported after the forget) and matches the query
C1_Witness ==
    /\ RetrievalCalled
    /\ \E m \in Range(RetrievalResult({})) :
          /\ m.id \in deletions
          /\ m.id \in DOMAIN collections["episodic"]

ForgetCalled == call.op = "forget"

\* C2: forget of an id the store holds, of whatever kind, leaves
\* retrieve_by_id without a record for it and the total count one less.
C2_ForgetRemovesRecord ==
    (ForgetCalled /\ retrieve_by_id(before.collections, call.memory_id) # None)
        => /\ retrieve_by_id(collections, call.memory_id) = None
           /\ count(collections, None) = count(before.collections, None) - 1

\* C3: every forget returns the success flag, for stored and never-stored
\* ids alike, and a forget that repeats the call before it leaves the stored
\* records and the deletion set as that call left them.
C3_ForgetIdempotent ==
    ForgetCalled
        => /\ ret = Some(TRUE)
           /\ before.repeats => /\ collections = before.collections
                                /\ deletions = before.deletions

\* the second of two forgets in a row of an id the system handed out
C3_Witness ==
    /\ ForgetCalled
    /\ before.repeats
    /\ call.memory_id \in 1..nextId

\* the storage call of this state stored a record
Stored ==
    /\ call.op = "store"
    /\ nextId \in DOMAIN collections[call.kind]
    /\ nextId \notin DOMAIN before.collections[call.kind]

\* C7: whichever entry point stored a record, the reflective check says
\* store for its content and kind and the consent check says proceed.
C7_EveryLayerPassed ==
    Stored
        => /\ would_future_self_value_this(call.content, call.kind).should_store
           /\ check_storage_consent(config, call.content, call.kind,
                                    ReasonOfKind[call.kind],
                                    collections[call.kind][nextId].metadata.salience,
                                    TRUE).should_proceed

\* ------------------------------------------------------------------------
\* search, search_by_embedding and search_associative on their own: every
\* store of a bounded domain
\* ------------------------------------------------------------------------

MaxSearchIds == 3

\* the ids of the stored records; the first two share their first eight
\* characters
SearchIds == 2..(MaxSearchIds + 1)

\* what a stored record may hold: content and salience
SearchBodies == {<< <<"a">>, 500 >>, << <<"b">>, 800 >>, << <<"c">>, 500 >>}

\* where the record of an id may lie: nowhere, in the episodic or the
\* semantic collection, or (after an import) in both
SearchPlacements == {{}, {"episodic"}, {"semantic"}, {"episodic", "semantic"}}

SearchStores ==
    {[k \in Kinds |->
        [i \in {x \in SearchIds : k \in placement[x]} |->
            LET m == Memory(i, k, shape[i][1], shape[i][2], 0, 0, 0, <<>>, 0)
            IN  [document |-> m.content, metadata |-> to_storage_dict(m)]]] :
        placement \in [SearchIds -> SearchPlacements],
        shape \in [SearchIds -> SearchBodies]}

\* the kinds whose collection.query raises during one call
FailingKinds == {{"episodic"}, {"semantic"}}

\* the calls made: search_associative, and search and search_by_embedding
\* while the index of one kind fails
SearchCalls ==
    [op : {"search_associative"}, query : {<<"a">>, <<"c">>},
     n_results : {1, 2}, lateral_expansion : {0, 1, 2},
     similarity_threshold : {600, 950}]
    \cup [op : {"search"}, query : {<<"a">>, <<"c">>}, n_results : {2},
          failing : FailingKinds]
    \cup [op : {"search_by_embedding"}, embedding : {embed(<<"a">>), embed(<<"c">>)},
          n_results : {1}, exclude_ids : {{}, {2}}, failing : FailingKinds]

InitSearch ==
    /\ nextId = 0 /\ now = 0 /\ ret = None /\ before = None
    /\ config = DefaultConfig
    /\ deletions = {}
    /\ collections \in SearchStores
    /\ call \in SearchCalls

Apply_search_associative ==
    /\ call.op = "search_associative"
    /\ ret = None
    /\ ret' = Some(search_associative(collections, now, call.query, None,
                                      call.n_results, 0, FALSE, call.lateral_expansion,
                                      call.similarity_threshold))
    /\ UNCHANGED <<collections, deletions, nextId, now, config, call, before>>

\* MemoryStore.search while the queries of call.failing raise
Apply_search ==
    /\ call.op = "search"
    /\ ret = None
    /\ ret' = Some(search_failing(collections, now, call.query, None, call.n_results,
                                  0, FALSE, call.failing))
    /\ UNCHANGED <<collections, deletions, nextId, now, config, call, before>>

\* MemoryStore.search_by_embedding while the queries of call.failing raise
Apply_search_by_embedding ==
    /\ call.op = "search_by_embedding"
    /\ ret = None
    /\ ret' = Some(search_by_embedding_failing(collections, now, call.embedding, None,
                                               call.n_results, 0, FALSE,
                                               call.exclude_ids, call.failing))
    /\ UNCHANGED <<collections, deletions, nextId, now, config, call, before>>

NextSearch ==
    \/ Apply_search_associative
    \/ Apply_search
    \/ Apply_search_by_embedding

SpecSearch == InitSearch /\ [][NextSearch]_vars

\* ------------------------------------------------------------------------
\* Properties of search_associative (under SpecSearch)
\* ------------------------------------------------------------------------

AssociativeSearched == call.op = "search_associative" /\ ret # None

\* the primary search returned nothing, or lateral expansion is off
Degenerate == ret[1].primary_results = <<>> \/ call.lateral_expansion = 0

\* C11 as stated: in the degenerate case there are no associated memories,
\* no patterns, and the clusters are exactly one cluster holding the primary
\* results in their ranked order.
C11_DegenerateIsOneCluster ==
    (AssociativeSearched /\ Degenerate)
        => /\ ret[1].associated_memories = <<>>
           /\ ret[1].patterns = <<>>
           /\ ret[1].clusters = <<ret[1].primary_results>>

\* C11, amended: in the degenerate case there are no associated memories and
\* no patterns; the clusters are one cluster holding the primary results in
\* their ranked order when there are primary results, and no cluster at all
\* when there are none.
C11_DegenerateIsOneClusterUnlessEmpty ==
    (AssociativeSearched /\ Degenerate)
        => /\ ret[1].associated_memories = <<>>
           /\ ret[1].patterns = <<>>
           /\ ret[1].clusters = IF ret[1].primary_results # <<>>
                                THEN <<ret[1].primary_results>> ELSE <<>>

\* lateral expansion is off and the primary results are two records that
\* clustering would have kept apart
C11_Witness ==
    /\ AssociativeSearched
    /\ call.lateral_expansion = 0
    /\ Len(ret[1].primary_results) = 2
    /\ Len(cluster_memories(ret[1].primary_results, call.similarity_threshold)) = 2
    /\ ret[1].clusters = <<ret[1].primary_results>>

PrimaryIds == {ret[1].primary_results[j][1].id : j \in DOMAIN ret[1].primary_results}

\* the associated memories are unseen and pairwise distinct
AssociatedAreUnseen ==
    LET associated == ret[1].associated_memories
    IN  /\ \A j \in DOMAIN associated : associated[j][1].id \notin PrimaryIds
        /\ \A i, j \in DOMAIN associated :
              i # j => associated[i][1].id # associated[j][1].id

\* the primary results an associated memory may stem from: those at or above
\* the threshold to which it has the reported similarity, itself at or
\* above the threshold
SeedsOf(entry) ==
    {p \in Range(ret[1].primary_results) :
        /\ p[2] >= call.similarity_threshold
        /\ entry[2] >= call.similarity_threshold
        /\ entry[2] = similarity(embed(p[1].content), embed(entry[1].content))}

\* C12 as stated: associated memories are unseen and distinct, stem from a
\* primary result at or above the threshold, are themselves at or above the
\* threshold to that seed, and carry the seed's id in their provenance tag.
C12_AssociatedCarrySeedId ==
    AssociativeSearched
        => /\ AssociatedAreUnseen
           /\ \A entry \in Range(ret[1].associated_memories) :
                 \E p \in SeedsOf(entry) :
                    entry[3] = <<"r","e","l","a","t","e","d","_","t","o",":">>
                               \o IdText(p[1].id)

\* C12, amended: as above, but the provenance tag carries the first eight
\* characters of the seed's id.
C12_AssociatedCarrySeedIdPrefix ==
    AssociativeSearched
        => /\ AssociatedAreUnseen
           /\ \A entry \in Range(ret[1].associated_memories) :
                 \E p \in SeedsOf(entry) :
                    entry[3] = <<"r","e","l","a","t","e","d","_","t","o",":">>
                               \o Prefix(IdText(p[1].id), 8)

\* an associated memory whose tag fits two primary results of different ids,
\* while the store holds a further record that was left out
C12_Witness ==
    /\ AssociativeSearched
    /\ \E entry \in Range(ret[1].associated_memories) :
          \E p, q \in Range(ret[1].primary_results) :
             /\ p[1].id # q[1].id
             /\ entry[3] = related_to(p[1])
             /\ entry[3] = related_to(q[1])

\* ------------------------------------------------------------------------
\* The life of a record: store, update_memory, import, forget and the
\* export/import round trip of test_export_import
\* ------------------------------------------------------------------------

\* the entry points the life of a record starts at
LifecycleKinds == {"episodic", "identity"}

\* the keyword arguments update_memory is called with: a salience of 1.5,
\* another kind, another id
LifecycleUpdates ==
    {[salience |-> 1500], [memory_type |-> "semantic"], [id |-> MaxIds + 1]}

\* the kind-specific arguments the entry points are called with: an
\* emotional_valence of 0 and of 2.0
LifecycleArguments ==
    [k \in LifecycleKinds |-> IF k = "episodic" THEN {0, 2000} ELSE ExtraArguments[k]]

\* the success rates store_procedural is called with: 0.5 and 1.5
SuccessRates == {500, 1500}

\* store_procedural(content, outcome="positive", success_rate=...)
StoreProcedural(content, success_rate) ==
    LET newcall == [op |-> "store_procedural", content |-> content,
                    success_rate |-> success_rate]
        outcome == store_procedural_rated(collections, config, now, nextId + 1,
                                          content, "positive", success_rate, <<>>)
    IN  /\ outcome.memory # None => nextId < MaxIds
        /\ call' = newcall
        /\ before' = Snapshot(newcall)
        /\ ret' = IF outcome.raised THEN Raised ELSE Some(outcome.id)
        /\ IF outcome.memory # None
           THEN /\ collections' = store(collections, outcome.memory[1])
                /\ nextId' = nextId + 1
           ELSE UNCHANGED <<collections, nextId>>
        /\ UNCHANGED <<deletions, now, config>>

\* the export a caller feeds to import_memories: the one taken of this store
\* before its last call (an empty dict before the first call)
EarlierExport ==
    IF before = None THEN <<>> ELSE export_all(before.collections)

\* data = ms.export(); fresh = MemorySystem(tmp); fresh.import_memories(data):
\* the count returned (or the exception) and the fresh store afterwards
ExportImport ==
    LET newcall == [op |-> "export_import"]
        outcome == import_memories([k \in Kinds |-> EmptyCollection],
                                   export_all(collections))
    IN  /\ call' = newcall
        /\ before' = Snapshot(newcall)
        /\ ret' = Some([raised |-> outcome.raised, count |-> outcome.count,
                        collections |-> outcome.collections])
        /\ UNCHANGED <<collections, deletions, nextId, now, config>>

NextLifecycle ==
    \/ \E kind \in LifecycleKinds :
          \E content \in Contents[kind], extra \in LifecycleArguments[kind] :
             Store(kind, content, extra)
    \/ \E content \in Contents["procedural"], success_rate \in SuccessRates :
          StoreProcedural(content, success_rate)
    \/ \E memory_id \in UpdateIds, updates \in LifecycleUpdates :
          UpdateMemory(memory_id, updates)
    \/ ImportMemories(EarlierExport)
    \/ Forget(1)
    \/ ExportImport

SpecLifecycle == Init /\ [][NextLifecycle]_vars

\* the (kind, content) pairs a store holds
KindContentPairs(colls) ==
    UNION {{<<k, colls[k][i].document>> : i \in DOMAIN colls[k]} : k \in Kinds}

ExportImported == call.op = "export_import" /\ ret # None

\* C13: importing export() of any reachable store into a fresh MemorySystem
\* returns the source's total count, and the fresh store then has the same
\* total count, the same per-kind counts and the same (kind, content) pairs
C13_ExportImportRoundTrip ==
    ExportImported =>
        /\ ~ret[1].raised
        /\ ret[1].count = count(collections, None)
        /\ count(ret[1].collections, None) = count(collections, None)
        /\ \A k \in Kinds : count(ret[1].collections, Some(k)) = count(collections, Some(k))
        /\ KindContentPairs(ret[1].collections) = KindContentPairs(collections)

\* the kinds whose collection holds a record under the id
HeldUnder(colls, id) == {k \in Kinds : id \in DOMAIN colls[k]}

\* C14: every id addresses at most one stored record, whose kind is the one
\* it was created with; update_memory never changes a record's kind or id
C14_IdsAndKindsAreFixed ==
    /\ [](\A id \in 1..(MaxIds + 1) : Cardinality(HeldUnder(collections, id)) <= 1)
    /\ [][\A id \in 1..(MaxIds + 1) :
            (HeldUnder(collections, id) # {} /\ HeldUnder(collections', id) # {})
                => HeldUnder(collections', id) = HeldUnder(collections, id)]_vars
    /\ [][call'.op = "update_memory" =>
            \A id \in 1..(MaxIds + 1) :
                HeldUnder(collections', id) = HeldUnder(collections, id)]_vars

\* C15: every stored record has salience and decay rate in [0,1], every
\* episodic record an emotional valence in [-1,1], and every identity record
\* decay rate 0
C15_StoredScoresInRange ==
    \A k \in Kinds : \A id \in DOMAIN collections[k] :
        LET m == collections[k][id].metadata
        IN  /\ m.salience \in 0..One
            /\ m.decay_rate \in 0..One
            /\ k = "episodic" => m.emotional_valence[1] \in (-One)..One
            /\ k = "identity" => m.decay_rate = 0

\* the call ended with an exception
CallRaised == Len(ret) = 2

\* the last call was store_episodic with an emotional_valence outside [-1,1]
\* and content that is stored when the valence is in range
EpisodicOutOfRange ==
    /\ call.op = "store" /\ call.kind = "episodic"
    /\ call.extra \notin (-One)..One
    /\ store_episodic(before.collections, config, now, nextId + 1, call.content,
                      clamp(call.extra, -One, One), <<>>).memory # None

\* the last call was store_procedural with a success_rate outside [0,1] and
\* content that is stored when the rate is in range
ProceduralOutOfRange ==
    /\ call.op = "store_procedural"
    /\ call.success_rate \notin 0..One
    /\ store_procedural_rated(before.collections, config, now, nextId + 1, call.content,
                              "positive", clamp(call.success_rate, 0, One), <<>>).memory # None

\* C16: a store_episodic call with an out-of-range emotional_valence, or a
\* store_procedural call with an out-of-range success_rate, ends with a
\* stored record (the valence clamped to the nearest bound), not an error
C16_OutOfRangeScoresAreClamped ==
    /\ EpisodicOutOfRange =>
           /\ ~CallRaised
           /\ ret[1] # None
           /\ collections["episodic"][ret[1][1]].metadata.emotional_valence
                  = Some(clamp(call.extra, -One, One))
    /\ ProceduralOutOfRange => (~CallRaised /\ ret[1] # None)

\* the last call was a store_* call that returned None
StoreReturnedNone ==
    /\ call.op = "store"
    /\ ~CallRaised
    /\ ret = Some(None)

\* C17: whenever a store_* call returns None, the stored records, their
\* contents, the per-kind counts and the deletion set are what they were
\* before the call
C17_RejectedStoreHasNoEffect ==
    StoreReturnedNone
        => /\ collections = before.collections
           /\ deletions = before.deletions
           /\ \A k \in Kinds : count(collections, Some(k)) = count(before.collections, Some(k))

\* a semantic candidate matching a never-store pattern was rejected by a
\* system that holds a record and has a deletion on file
C17_Witness ==
    /\ StoreReturnedNone
    /\ call.kind = "semantic"
    /\ ~check_storage_consent(config, call.content, "semantic", "learned_something",
                              500, TRUE).should_proceed
    /\ count(collections, None) > 0
    /\ deletions # {}

\* an episodic candidate was rejected by the reflective check
C17_ReflectiveWitness ==
    /\ StoreReturnedNone
    /\ call.kind = "episodic"
    /\ ~would_future_self_value_this(call.content, "episodic").should_store
    /\ count(collections, None) > 0

\* ------------------------------------------------------------------------
\* Properties of search and search_by_embedding while one index fails
\* (under SpecSearch)
\* ------------------------------------------------------------------------

\* the kinds whose query did not fail, in the order they are searched
RemainingKinds == SelectSeq(MemoryType, LAMBDA k : k \notin call.failing)

\* C18: when the index query of one kind fails, search and
\* search_by_embedding return the matches of the remaining kinds, ranked and
\* truncated as a search of those kinds alone
C18_FailingKindIsSkipped ==
    /\ (call.op = "search" /\ ret # None)
           => ret[1] = search(collections, now, call.query, Some(RemainingKinds),
                              call.n_results, 0, FALSE)
    /\ (call.op = "search_by_embedding" /\ ret # None)
           => ret[1] = search_by_embedding(collections, now, call.embedding,
                                           Some(RemainingKinds), call.n_results, 0,
                                           FALSE, call.exclude_ids)

\* the episodic index failed while it held a record a full search returns,
\* and the search still returned a semantic record
C18_Witness ==
    /\ call.op = "search" /\ ret # None
    /\ call.failing = {"episodic"}
    /\ collections["episodic"] # EmptyCollection
    /\ ret[1] # <<>>
    /\ ret[1] # search(collections, now, call.query, None, call.n_results, 0, FALSE)
    /\ \A j \in DOMAIN ret[1] : ret[1][j][1].memory_type = "semantic"

\* ------------------------------------------------------------------------
\* calculate_salience on its own: every input of a bounded domain
\* ------------------------------------------------------------------------

\* emotional valences in [-1,1], in thousandths
SalienceValences == {-1000, -500, -10, 0, 10, 500, 1000}

\* the largest similarity to the existing embeddings, in [-1,1]; None when
\* no existing embeddings are passed
MaxSimilarities == {-1000, -500, 0, 300, 550, 900, 995, 1000}

InitSalience ==
    /\ FreshSystem
    /\ config = DefaultConfig
    /\ ret = None /\ before = None
    /\ call \in [op : {"calculate_salience"}, emotional_valence : SalienceValences,
                 is_identity_related : BOOLEAN,
                 max_similarity : {None} \cup {Some(m) : m \in MaxSimilarities}]

Apply_calculate_salience ==
    /\ call.op = "calculate_salience"
    /\ ret = None
    /\ ret' = Some(salience_given(call.emotional_valence, call.is_identity_related,
                                  call.max_similarity))
    /\ UNCHANGED <<collections, deletions, nextId, now, config, call, before>>

NextSalience == Apply_calculate_salience

SpecSalience == InitSalience /\ [][NextSalience]_vars

SalienceCalculated == call.op = "calculate_salience" /\ ret # None

\* C19: calculate_salience returns clamp(0.5 + |valence| * 0.3 + 0.2 if
\* identity-related + (1 - maxSimilarity) * 0.2 if there are prior vectors,
\* 0, 1); the result lies in [0,1] and does not increase when maxSimilarity
\* does
C19_SalienceFormula ==
    SalienceCalculated =>
        LET v == call.emotional_valence
            m == call.max_similarity
            sum == 500 + (Abs(v) * 3) \div 10
                       + (IF call.is_identity_related THEN 200 ELSE 0)
                       + (IF m = None THEN 0 ELSE ((One - m[1]) * 2) \div 10)
        IN  /\ ret[1] = (IF sum > One THEN One ELSE IF sum < 0 THEN 0 ELSE sum)
            /\ ret[1] \in 0..One
            /\ m # None =>
                   \A m2 \in MaxSimilarities :
                       m2 >= m[1] => salience_given(v, call.is_identity_related, Some(m2))
                                        <= ret[1]

\* a near-duplicate scored strictly lower than a novel memory would have
C19_Witness ==
    /\ SalienceCalculated
    /\ call.max_similarity = Some(995)
    /\ ret[1] < salience_given(call.emotional_valence, call.is_identity_related, Some(0))
    /\ ret[1] > 500

\* ------------------------------------------------------------------------
\* is_this_relevant_or_pattern_matching on its own: every input of a bounded
\* domain
\* ------------------------------------------------------------------------

\* the queries: one sharing every word with TextBrief, one sharing none
RelevanceQueries == {TextBrief, <<"d">>}

\* the saliences of the memory judged: 0.5, 0.7, 0.8
RelevanceSaliences == {500, 700, 800}

\* the similarities passed: around the 0.5, 0.6 and 0.85 thresholds
RelevanceSimilarities == {400, 550, 600, 700, 900}

RelevanceMemories ==
    {Memory(1, k, content, salience, 0, 0, 0, <<>>, 0) :
        k \in Kinds, content \in Texts, salience \in RelevanceSaliences}

InitRelevance ==
    /\ FreshSystem
    /\ config = DefaultConfig
    /\ ret = None /\ before = None
    /\ call \in [op : {"is_this_relevant_or_pattern_matching"}, query : RelevanceQueries,
                 memory : RelevanceMemories, similarity : RelevanceSimilarities]

Apply_is_this_relevant_or_pattern_matching ==
    /\ call.op = "is_this_relevant_or_pattern_matching"
    /\ ret = None
    /\ ret' = Some(is_this_relevant_or_pattern_matching(call.query, call.memory,
                                                        call.similarity))
    /\ UNCHANGED <<collections, deletions, nextId, now, config, call, before>>

NextRelevance == Apply_is_this_relevant_or_pattern_matching

SpecRelevance == InitRelevance /\ [][NextRelevance]_vars

\* a record of salience > 0.7 was judged
HighSalienceJudged ==
    /\ call.op = "is_this_relevant_or_pattern_matching" /\ ret # None
    /\ call.memory.salience > 700

\* more than half of the query's words occur in the record's content
HighOverlap ==
    2 * Cardinality(words(call.query) \cap words(call.memory.content))
        > Max({Cardinality(words(call.query)), 1})

\* C20 as stated: every record with salience > 0.7 is judged relevant,
\* whatever its kind, its similarity and its word overlap with the query.
C20_HighSalienceIsRelevant ==
    HighSalienceJudged => ret[1] = TRUE

\* C20, amended: a record with salience > 0.7 is judged relevant unless its
\* similarity is below 0.6 and either more than half of the query's words
\* occur in it or its kind is identity or procedural.
C20_HighSalienceIsRelevantUnlessRejected ==
    HighSalienceJudged =>
        (ret[1] = TRUE <=>
            ~(/\ call.similarity < 600
              /\ HighOverlap \/ call.memory.memory_type \in {"identity", "procedural"}))

\* a semantic record of salience 0.8 that repeats the query's words at
\* similarity below 0.6 was judged not relevant, and one above the 0.5
\* default bar at that
C20_Witness ==
    /\ HighSalienceJudged
    /\ call.memory.memory_type = "semantic"
    /\ HighOverlap
    /\ call.similarity > 500 /\ call.similarity < 600
    /\ ret[1] = FALSE

\* ------------------------------------------------------------------------
\* would_future_self_value_this on its own: contents put together from a
\* phrase of each group (or none) and padding
\* ------------------------------------------------------------------------

\* a correction phrase, in the letter case a caller may use, or none
CorrectionParts == {<<>>, <<"A","c","t","u","a","l","l","y">>, <<"I"," ","w","a","s"," ","W","R","O","N","G">>}

\* an emotional word or none
EmotionalParts == {<<>>, <<"f","e","l","t">>, <<"M","o","v","e","d">>}

\* a self-reflection phrase or none
ReflectionParts == {<<>>, <<"I"," ","n","o","t","i","c","e","d">>}

\* padding of 3 and of 50 characters that holds no phrase of any group
PaddingParts == {<<"z","z","z">>, [j \in 1..50 |-> "z"]}

InitReflective ==
    /\ FreshSystem
    /\ config = DefaultConfig
    /\ ret = None /\ before = None
    /\ call \in [op : {"would_future_self_value_this"}, memory_type : Kinds,
                 correction : CorrectionParts, emotional : EmotionalParts,
                 reflection : ReflectionParts, padding : PaddingParts]

\* the content the parts of the call make up
ReflectiveContent ==
    call.padding \o call.reflection \o <<" ">> \o call.emotional \o <<" ">> \o call.correction

Apply_would_future_self_value_this ==
    /\ call.op = "would_future_self_value_this"
    /\ ret = None
    /\ ret' = Some(would_future_self_value_this(ReflectiveContent, call.memory_type))
    /\ UNCHANGED <<collections, deletions, nextId, now, config, call, before>>

NextReflective == Apply_would_future_self_value_this

SpecReflective == InitReflective /\ [][NextReflective]_vars

Reflected == call.op = "would_future_self_value_this" /\ ret # None

\* the (store, salience) the first matching rule of the list gives
FirstMatch ==
    IF call.memory_type = "identity" THEN <<TRUE, 800>>
    ELSE IF call.correction # <<>> THEN <<TRUE, 700>>
    ELSE IF call.emotional # <<>> THEN <<TRUE, 600>>
    ELSE IF call.reflection # <<>> THEN <<TRUE, 700>>
    ELSE IF Len(ReflectiveContent) < 50 THEN <<FALSE, 200>>
    ELSE <<TRUE, 400>>

\* C21: would_future_self_value_this is a first-match decision list:
\* identity kind (store, 0.8), else a correction phrase (store, 0.7), else
\* an emotional word (store, 0.6), else a self-reflection phrase (store,
\* 0.7), else content under 50 characters (do not store, 0.2), else
\* (store, 0.4)
C21_FirstMatchDecides ==
    Reflected => <<ret[1].should_store, ret[1].suggested_salience>> = FirstMatch

\* content with an emotional word, a self-reflection phrase and a
\* correction phrase, which comes last in the text, took the salience of the
\* correction group
C21_Witness ==
    /\ Reflected
    /\ call.memory_type = "semantic"
    /\ call.correction # <<>> /\ call.emotional # <<>> /\ call.reflection # <<>>
    /\ ret[1].should_store
    /\ ret[1].suggested_salience = 700
    /\ ret[1].reason = "correction"

\* ------------------------------------------------------------------------
\* to_storage_dict and from_storage_dict on their own: memories of every
\* kind with up to two tags
\* ------------------------------------------------------------------------

\* the most tags a memory carries
MaxTags == 2

\* the strings a caller may pass as a tag: "", "a" and "a,b"
TagStrings == {<<>>, <<"a">>, <<"a", ",", "b">>}

\* the tag lists of up to MaxTags tags
TagLists == UNION {[1..n -> TagStrings] : n \in 0..MaxTags}

StorageDictMemories ==
    {Memory(1, k, content, 500, 0, 0, 0, tags, 0) :
        k \in Kinds, content \in Texts, tags \in TagLists}

InitStorageDict ==
    /\ FreshSystem
    /\ config = DefaultConfig
    /\ ret = None /\ before = None
    /\ call \in [op : {"from_storage_dict"}, memory : StorageDictMemories]

\* Memory.from_storage_dict(m.to_storage_dict(), m.content)
Apply_from_storage_dict ==
    /\ call.op = "from_storage_dict"
    /\ ret = None
    /\ ret' = Some(from_storage_dict(to_storage_dict(call.memory), call.memory.content))
    /\ UNCHANGED <<collections, deletions, nextId, now, config, call, before>>

NextStorageDict == Apply_from_storage_dict

SpecStorageDict == InitStorageDict /\ [][NextStorageDict]_vars

\* C22: from_storage_dict(m.to_storage_dict(), m.content) is a record of the
\* same kind with the same id, content and tags, for every list of tag
\* strings, including strings that contain a comma or are empty
C22_StorageDictRoundTrip ==
    (call.op = "from_storage_dict" /\ ret # None)
        => /\ ret[1].memory_type = call.memory.memory_type
           /\ ret[1].id = call.memory.id
           /\ ret[1].content = call.memory.content
           /\ ret[1].tags = call.memory.tags

\* ------------------------------------------------------------------------
\* request_deletion and check_retrieval_consent called from several threads
\* on one ConsentLayer.  call.programs holds what each thread runs, ret the
\* position of each thread: pc, the loop index i, the list filtered, the
\* deletion set as loaded when request_deletion was entered, and the ids
\* whose request_deletion had returned when the check started.
\* ------------------------------------------------------------------------

\* how many threads there are
MaxThreads == 3

Threads == 1..MaxThreads

\* what a thread runs: request_deletion of an id or a retrieval check
ThreadPrograms ==
    {[op |-> "request_deletion", id |-> 1], [op |-> "request_deletion", id |-> 2],
     [op |-> "check_retrieval_consent", id |-> 0]}

\* the candidates every check is called with, and its reason
ThreadCandidates ==
    << <<Memory(1, "semantic", TextBrief, 500, 0, 0, 0, <<>>, 0), 900>>,
       <<Memory(2, "semantic", TextBrief, 500, 0, 0, 0, <<>>, 0), 800>> >>

InitThreads ==
    /\ FreshSystem
    /\ config = DefaultConfig
    /\ before = None
    /\ call \in [op : {"threads"}, programs : [Threads -> ThreadPrograms]]
    /\ ret = [t \in Threads |-> [pc |-> "ready", i |-> 0, filtered |-> <<>>,
                                 loaded |-> {}, returned_before |-> {}]]

\* a thread enters request_deletion
CallRequestDeletion(t) ==
    /\ call.programs[t].op = "request_deletion"
    /\ ret[t].pc = "ready"
    /\ ret' = [ret EXCEPT ![t].pc = "called", ![t].loaded = deletions]
    /\ UNCHANGED <<collections, deletions, nextId, now, config, call, before>>

\* the thread adds the id and returns True
AddDeletion(t) ==
    /\ call.programs[t].op = "request_deletion"
    /\ ret[t].pc = "called"
    /\ deletions' = request_deletion(set_added_to(deletions, ret[t].loaded),
                                     call.programs[t].id)
    /\ ret' = [ret EXCEPT ![t].pc = "done"]
    /\ UNCHANGED <<collections, nextId, now, config, call, before>>

\* a thread enters check_retrieval_consent
StartCheck(t) ==
    /\ call.programs[t].op = "check_retrieval_consent"
    /\ ret[t].pc = "ready"
    /\ ret' = [ret EXCEPT ![t].pc = "running", ![t].i = 1,
                          ![t].returned_before =
                              {call.programs[u].id : u \in
                                  {v \in Threads :
                                      /\ call.programs[v].op = "request_deletion"
                                      /\ ret[v].pc = "done"}}]
    /\ UNCHANGED <<collections, deletions, nextId, now, config, call, before>>

\* one pass of the loop over the candidates, reading the set as it is now
StepCheck(t) ==
    /\ call.programs[t].op = "check_retrieval_consent"
    /\ ret[t].pc = "running"
    /\ ret[t].i <= Len(ThreadCandidates)
    /\ ret' = [ret EXCEPT
                  ![t].i = @ + 1,
                  ![t].filtered =
                      IF keeps(config, deletions, "explicit_request",
                               ThreadCandidates[ret[t].i][1], ThreadCandidates[ret[t].i][2])
                      THEN Append(@, ThreadCandidates[ret[t].i]) ELSE @]
    /\ UNCHANGED <<collections, deletions, nextId, now, config, call, before>>

\* return filtered[:max_results_per_query]
FinishCheck(t) ==
    /\ call.programs[t].op = "check_retrieval_consent"
    /\ ret[t].pc = "running"
    /\ ret[t].i > Len(ThreadCandidates)
    /\ ret' = [ret EXCEPT ![t].pc = "done",
                          ![t].filtered = Prefix(@, config.max_results_per_query)]
    /\ UNCHANGED <<collections, deletions, nextId, now, config, call, before>>

NextThreads ==
    \/ \E t \in Threads : CallRequestDeletion(t)
    \/ \E t \in Threads : AddDeletion(t)
    \/ \E t \in Threads : StartCheck(t)
    \/ \E t \in Threads : StepCheck(t)
    \/ \E t \in Threads : FinishCheck(t)

SpecThreads == InitThreads /\ [][NextThreads]_vars

\* the threads whose request_deletion has returned, and whose check has
DeletionsReturned ==
    {t \in Threads : call.programs[t].op = "request_deletion" /\ ret[t].pc = "done"}

ChecksReturned ==
    {t \in Threads : call.programs[t].op = "check_retrieval_consent" /\ ret[t].pc = "done"}

\* C23: under every interleaving, no id whose request_deletion has returned
\* is missing from the deletion set, and a retrieval check that started
\* after request_deletion(id) returned does not return id
C23_DeletionSetIsThreadSafe ==
    call.op = "threads" =>
        /\ \A t \in DeletionsReturned : call.programs[t].id \in deletions
        /\ \A t \in ChecksReturned :
              \A j \in DOMAIN ret[t].filtered :
                 ret[t].filtered[j][1].id \notin ret[t].returned_before

\* two deletions ran into each other (the second entered before the first
\* added) and a check that started after the first returned raced with the
\* second: it returned the id that is in the deletion set by now
C23_Witness ==
    /\ call.op = "threads"
    /\ deletions = {1, 2}
    /\ \E t \in DeletionsReturned : ret[t].loaded = {} /\ call.programs[t].id = 2
    /\ \E t \in ChecksReturned :
          /\ ret[t].returned_before = {1}
          /\ {ret[t].filtered[j][1].id : j \in DOMAIN ret[t].filtered} = {2}

\* ------------------------------------------------------------------------
\* Seeds of _cluster_memories (under SpecCluster)
\* ------------------------------------------------------------------------

\* the similarity of two records of the pool, as the loop computes it
PairwiseSimilarity(a, b) == similarity(embed(a[1].content), embed(b[1].content))

\* C24: the clusters are opened in descending order of the pool's scores;
\* every member of a cluster after its first (the seed) is similar to the
\* seed by at least the threshold; every record left for a later cluster is
\* less similar than the threshold to the seed of each earlier cluster; and
\* two records of pairwise similarity 0.9 under threshold 0.6 give one
\* cluster holding both.
C24_ClustersGrowFromSeeds ==
    Clustered
        => LET clusters == ret[1].clusters
           IN  /\ \A c, e \in DOMAIN clusters :
                     c < e => clusters[c][1][2] >= clusters[e][1][2]
               /\ \A c \in DOMAIN clusters :
                     \A j \in DOMAIN clusters[c] :
                        j > 1 => PairwiseSimilarity(clusters[c][1], clusters[c][j])
                                    >= call.threshold
               /\ \A c, e \in DOMAIN clusters :
                     c < e => \A j \in DOMAIN clusters[e] :
                                 PairwiseSimilarity(clusters[c][1], clusters[e][j])
                                    < call.threshold
               /\ (/\ Len(call.memories) = 2
                   /\ PairwiseSimilarity(call.memories[1], call.memories[2]) = 900
                   /\ call.threshold = 600)
                     => Len(clusters) = 1 /\ Range(clusters[1]) = Range(call.memories)

\* a pool given in ascending order of score was split in two: the record of
\* the highest score, last in the pool, seeds the first cluster and pulls in
\* the first record; the one left over seeds the second
C24_Witness ==
    /\ Clustered
    /\ Len(call.memories) = 3
    /\ call.threshold = 600
    /\ call.memories[1][2] < call.memories[3][2]
    /\ Len(ret[1].clusters) = 2
    /\ ret[1].clusters[1] = <<call.memories[3], call.memories[1]>>
    /\ ret[1].clusters[2] = <<call.memories[2]>>

\* ------------------------------------------------------------------------
\* The recurring-tags note of _extract_patterns (under SpecCluster)
\* ------------------------------------------------------------------------

\* the members of a cluster that carry a tag
Carriers(cluster, tag) ==
    {j \in DOMAIN cluster : tag \in Range(cluster[j][1].tags)}

\* C25: a recurring-tags note lists at most 3 tags, each carried by at least
\* 2 distinct members of one cluster of two or more; a tag that occurs twice
\* in one member and in no other member is not reported.
C25_RecurringTagsAreShared ==
    Clustered
        => \A p \in DOMAIN ret[1].patterns :
              ret[1].patterns[p].note = "Recurring entities"
                 => /\ Len(ret[1].patterns[p].tags) <= 3
                    /\ \E c \in DOMAIN ret[1].clusters :
                          /\ Len(ret[1].clusters[c]) >= 2
                          /\ \A t \in DOMAIN ret[1].patterns[p].tags :
                                Cardinality(Carriers(ret[1].clusters[c],
                                                     ret[1].patterns[p].tags[t])) >= 2

\* ------------------------------------------------------------------------
\* store_semantic and update_memory while time passes
\* ------------------------------------------------------------------------

\* how far the clock runs
MaxTime == 2

\* datetime.utcnow() returns a later time from now on
Tick ==
    LET newcall == [op |-> "tick"]
    IN  /\ now < MaxTime
        /\ now' = now + 1
        /\ call' = newcall
        /\ before' = Snapshot(newcall)
        /\ ret' = None
        /\ UNCHANGED <<collections, deletions, nextId, config>>

\* the updates passed while the clock runs: stamps that lie ahead of the
\* clock, a salience, and another id
ClockUpdates ==
    {[updated_at |-> MaxTime + 1], [created_at |-> MaxTime + 1], [salience |-> 200],
     [id |-> MaxIds + 1]}

NextClock ==
    \/ \E extra \in ExtraArguments["semantic"] : Store("semantic", TextBrief, extra)
    \/ Tick
    \/ \E memory_id \in UpdateIds, updates \in ClockUpdates :
          UpdateMemory(memory_id, updates)

SpecClock == Init /\ [][NextClock]_vars

UpdateCalled == call.op = "update_memory" /\ ret # None

\* the record the call found, and the one held under that id afterwards
RecordBefore == retrieve_by_id(before.collections, call.memory_id)

RecordAfter == retrieve_by_id(collections, call.memory_id)

\* the record held under the id is stamped with the time of the call, not
\* earlier than its stamp before, and keeps created_at unless that is updated
StampedWithTimeOfCall ==
    /\ RecordAfter # None
    /\ RecordAfter[1].updated_at = now
    /\ RecordAfter[1].updated_at >= RecordBefore[1].updated_at
    /\ "created_at" \notin DOMAIN call.updates
          => RecordAfter[1].created_at = RecordBefore[1].created_at

\* C26: update_memory on an existing record re-stores it under the same id,
\* updated_at set to the time of the call (not earlier than before, even when
\* the updates carry updated_at), created_at unchanged unless updated; on an
\* absent id it returns None and leaves the store unchanged.
C26_UpdateStampsTheRecord ==
    UpdateCalled
        => IF RecordBefore # None
           THEN /\ ret[1] = Some(call.memory_id)
                /\ \A k \in Kinds : DOMAIN collections[k] = DOMAIN before.collections[k]
                /\ StampedWithTimeOfCall
           ELSE ret[1] = None /\ collections = before.collections

\* the same for updates that do not name the id
C26_UpdateStampsUnlessIdIsUpdated ==
    (UpdateCalled /\ "id" \notin DOMAIN call.updates) => C26_UpdateStampsTheRecord

\* ------------------------------------------------------------------------
\* The consent gate and the ways into the store: store_semantic,
\* update_memory, import_memories
\* ------------------------------------------------------------------------

\* the updates passed: a content matching the never-store pattern, a content
\* below the minimum length, a salience
GateUpdates == {[content |-> TextSecret], [content |-> <<"a">>], [salience |-> 200]}

\* an export of another system: one semantic record whose content matches
\* the never-store pattern of this one
GateImports ==
    {<< <<"semantic",
          <<[id |-> MaxIds + 1, content |-> TextSecret,
             metadata |-> to_storage_dict(Memory(MaxIds + 1, "semantic", TextSecret,
                                                 500, 0, 0, 0, <<>>, 0))]>> >> >>}

NextGate ==
    \/ \E content \in Contents["semantic"], extra \in ExtraArguments["semantic"] :
          Store("semantic", content, extra)
    \/ \E memory_id \in UpdateIds, updates \in GateUpdates :
          UpdateMemory(memory_id, updates)
    \/ \E data \in GateImports : ImportMemories(data)

SpecGate == Init /\ [][NextGate]_vars

\* C27: no stored record's content contains a never-store pattern or is
\* shorter, trimmed, than the minimum length
C27_StoredContentPassedTheGate ==
    \A k \in Kinds :
       \A i \in DOMAIN collections[k] :
          /\ never_store_hits(config, collections[k][i].document) = {}
          /\ ~content_too_short(config, collections[k][i].document)

\* a store_* call never breaks it
C27_StoreCallsPassTheGate ==
    [][(call'.op = "store" /\ C27_StoredContentPassedTheGate)
          => C27_StoredContentPassedTheGate']_vars

\* ------------------------------------------------------------------------
\* forget(id) and update_memory(id, ...) called from two threads on one
\* MemorySystem.  ret holds the position of each call and the record
\* update_memory has read.
\* ------------------------------------------------------------------------

\* the updates passed by the updating thread
RaceUpdates == {[salience |-> 200], [salience |-> 900], [content |-> TextBrief]}

\* both calls are issued on a record the store holds
ForgetAndUpdateCalled(memory_id, updates) ==
    LET newcall == [op |-> "forget_and_update", memory_id |-> memory_id, updates |-> updates]
    IN  /\ call.op \in {"store", "tick"} \/ (call.op = newcall.op /\ ret.forget = "done"
                                                /\ ret.update = "done")
        /\ \E k \in Kinds : memory_id \in DOMAIN collections[k]
        /\ call' = newcall
        /\ before' = Snapshot(newcall)
        /\ ret' = [forget |-> "called", update |-> "called", memory |-> None,
                   returned |-> None]
        /\ UNCHANGED <<collections, deletions, nextId, now, config>>

\* update_memory: memory = self.store.retrieve_by_id(memory_id)
UpdateReads ==
    /\ call.op = "forget_and_update"
    /\ ret.update = "called"
    /\ ret' = [ret EXCEPT !.update = "read",
                          !.memory = retrieve_by_id(collections, call.memory_id)]
    /\ UNCHANGED <<collections, deletions, nextId, now, config, call, before>>

\* update_memory from "if not memory" on: return None, or set the fields,
\* stamp and re-store the record read
UpdateRestores ==
    /\ call.op = "forget_and_update"
    /\ ret.update = "read"
    /\ IF ret.memory = None
       THEN /\ ret' = [ret EXCEPT !.update = "done"]
            /\ UNCHANGED collections
       ELSE /\ collections' =
                  store(collections,
                        [with_updates(ret.memory[1], call.updates) EXCEPT !.updated_at = now])
            /\ ret' = [ret EXCEPT !.update = "done", !.returned = Some(ret.memory[1].id)]
    /\ UNCHANGED <<deletions, nextId, now, config, call, before>>

\* forget: self.consent.request_deletion(memory_id)
ForgetMarks ==
    /\ call.op = "forget_and_update"
    /\ ret.forget = "called"
    /\ deletions' = request_deletion(deletions, call.memory_id)
    /\ ret' = [ret EXCEPT !.forget = "marked"]
    /\ UNCHANGED <<collections, nextId, now, config, call, before>>

\* forget: return self.store.delete(memory_id)
ForgetDeletes ==
    /\ call.op = "forget_and_update"
    /\ ret.forget = "marked"
    /\ collections' = delete(collections, call.memory_id).collections
    /\ ret' = [ret EXCEPT !.forget = "done"]
    /\ UNCHANGED <<deletions, nextId, now, config, call, before>>

NextRace ==
    \/ Store("episodic", TextFelt, 0)
    \/ Tick
    \/ \E updates \in RaceUpdates : ForgetAndUpdateCalled(1, updates)
    \/ UpdateReads
    \/ UpdateRestores
    \/ ForgetMarks
    \/ ForgetDeletes

SpecRace == Init /\ [][NextRace]_vars

\* C28: once forget(id) and update_memory(id, ...), run concurrently on an
\* existing record, have both completed, the record is absent from the
\* store: not counted, not exported, not returned by retrieve_by_id
C28_ForgetWinsOverUpdate ==
    (call.op = "forget_and_update" /\ ret.forget = "done" /\ ret.update = "done")
        => /\ retrieve_by_id(collections, call.memory_id) = None
           /\ count(collections, None) = count(before.collections, None) - 1
           /\ \A t \in DOMAIN MemoryType :
                 \A j \in DOMAIN export_all(collections)[t][2] :
                    export_all(collections)[t][2][j].id # call.memory_id

\* ------------------------------------------------------------------------
\* The store_* entry points on a system that requires explicit consent
\* ------------------------------------------------------------------------

\* ConsentConfig(require_explicit_consent=True, ...), with and without
\* auto-approval of semantic records
ExplicitConfigs ==
    {[c EXCEPT !.require_explicit_consent = TRUE,
               !.auto_approve = [@ EXCEPT !["semantic"] = a]] :
        c \in SystemConfigs, a \in BOOLEAN}

InitExplicit ==
    /\ FreshSystem
    /\ config \in ExplicitConfigs
    /\ call = [op |-> "init"]
    /\ ret = None
    /\ before = None

NextExplicit ==
    \/ \E kind \in Kinds :
          \E content \in Contents[kind], extra \in ExtraArguments[kind] :
             Store(kind, content, extra)
    \/ Tick

SpecExplicit == InitExplicit /\ [][NextExplicit]_vars

\* what the call would have returned had explicit consent not been required
WithoutRequirement ==
    store_of_kind(call.kind, before.collections,
                  [config EXCEPT !.require_explicit_consent = FALSE], now, nextId + 1,
                  call.content, call.extra, <<>>)

\* C29: the facade passes no user_consented, so the check runs with its
\* default, true: with require_explicit_consent = true a store_* call is
\* accepted or rejected exactly as it is without the requirement, never for
\* want of consent
C29_FacadeConsentIsGiven ==
    (call.op = "store" /\ config.require_explicit_consent)
        => /\ CallRaised <=> WithoutRequirement.raised
           /\ ~CallRaised => (ret[1] = None <=> WithoutRequirement.memory = None)

\* under the requirement one call has stored a record and another was
\* rejected, for a reason other than consent
C29_Witness ==
    /\ call.op = "store"
    /\ config.require_explicit_consent
    /\ ~CallRaised
    /\ ret[1] = None
    /\ WithoutRequirement.memory = None
    /\ count(collections, None) = 1

\* ------------------------------------------------------------------------
\* storage.py: MemoryStore.get_all_by_type and get_recent; system.py:
\* get_identity, get_recent, export next to forget
\* ------------------------------------------------------------------------

\* collection.get(include=[...], limit=limit): the ids returned
collection_get(collection, limit) == Prefix(SetToSeq(DOMAIN collection), limit)

\* the records the loop over the ids builds before from_storage_dict raises
records_read(collection, ids) ==
    [j \in DOMAIN up_to_unreadable(collection, ids) |->
        from_storage_dict(collection[ids[j]].metadata, collection[ids[j]].document)]

\* the records by descending key (list.sort(key=..., reverse=True))
sorted_by(all_memories, field) ==
    sorted_desc([j \in DOMAIN all_memories |-> <<all_memories[j][field], all_memories[j]>>])

\* MemoryStore.get_all_by_type
get_all_by_type(colls, memory_type, limit) ==
    sorted_by(records_read(colls[memory_type], collection_get(colls[memory_type], limit)),
              "salience")

RECURSIVE recent_of(_, _, _, _, _)
\* the loop of get_recent over the kinds: the records created at most
\* `days` days ago
recent_of(colls, today, types, days, limit) ==
    IF types = <<>> THEN <<>>
    ELSE SelectSeq(records_read(colls[Head(types)],
                                collection_get(colls[Head(types)], limit * 2)),
                   LAMBDA memory : today - memory.created_at <= days)
         \o recent_of(colls, today, Tail(types), days, limit)

\* MemoryStore.get_recent
get_recent(colls, today, memory_types, days, limit) ==
    Prefix(sorted_by(recent_of(colls, today, OrElse(memory_types, MemoryType), days, limit),
                     "created_at"),
           limit)

\* MemorySystem.get_identity
GetIdentity ==
    LET newcall == [op |-> "get_identity"]
    IN  /\ call' = newcall
        /\ before' = Snapshot(newcall)
        /\ ret' = Some(get_all_by_type(collections, "identity", 50))
        /\ UNCHANGED <<collections, deletions, nextId, now, config>>

\* MemorySystem.get_recent
GetRecent(days) ==
    LET newcall == [op |-> "get_recent", days |-> days]
    IN  /\ call' = newcall
        /\ before' = Snapshot(newcall)
        /\ ret' = Some(get_recent(collections, now, None, days, 50))
        /\ UNCHANGED <<collections, deletions, nextId, now, config>>

NextReads ==
    \/ \E kind \in LifecycleKinds :
          \E extra \in ExtraArguments[kind] : Store(kind, TextFelt, extra)
    \/ \E memory_id \in 1..(MaxIds + 1) : Forget(memory_id)
    \/ Tick
    \/ GetIdentity
    \/ GetRecent(7)
    \/ Export

SpecReads == Init /\ [][NextReads]_vars

\* the ids of the records an export lists
ExportedIds(data) ==
    UNION {{data[t][2][j].id : j \in DOMAIN data[t][2]} : t \in DOMAIN data}

\* C30: once an id is in the deletion set, get_identity(), get_recent() and
\* export() never return a record with that id, even when the store still
\* holds it
C30_DeletedIdsAreNeverRead ==
    /\ call.op \in {"get_identity", "get_recent"}
          => \A j \in DOMAIN ret[1] : ret[1][j].id \notin deletions
    /\ call.op = "export" => ExportedIds(ret[1]) \cap deletions = {}
====
